---- MODULE Spec2Model ----
(***************************************************************************)
(* Model of the transport/auth core of cftools-sdk:                        *)
(*   - CFToolsAuthorizationProvider (src/src/internal/auth.ts 78-130)      *)
(*   - GotHttpClient and fromHttpError (src/src/internal/http.ts 116-218)  *)
(* Time is counted in whole hours since 1 January 00:00 of a non-leap      *)
(* year; a Date is such a number.                                          *)
(***************************************************************************)
EXTENDS Integers, Sequences, FiniteSets, TLC

VARIABLES
    now,        \* the wall clock (new Date())
    ticks,      \* how often the clock was advanced
    provider,   \* CFToolsAuthorizationProvider: [token, created, expired]
    logins,     \* login exchanges (POST v1/auth/register) sent so far
    issued,     \* tokens issued by the login endpoint so far
    lastOp,     \* the provider method called last: none / provide / reportExpired
    ops,        \* direct provider calls made by the application so far
    pc,         \* per process: idle / login / resume / exec / done
    verb,       \* per process: provide (direct call) / get / post / delete
    attempt,    \* per process: executions of the request started so far
    fetched,    \* per process: the token fetchToken() returned to provide()
    authz,      \* per process: the Authorizations provide() returned, in order
    headers,    \* per process: options.headers, as left by populateContext
    sent,       \* per process: the authorization header of each execution
    resp,       \* per process: the transport response to each execution
    lresp,      \* per process: the answer to each of its login exchanges
    log,        \* per process: what withErrorHandler did, in order
    result,     \* per process: how the call (or the direct provide()) ended
    pv,         \* per process: what its latest provide() saw and did
    clsIn,      \* the (response, auth) pair handed to fromHttpError
    clsOut,     \* what fromHttpError made of clsIn
    cfg,        \* the GotCFToolsClient: its constructor's arguments
    op,         \* the client operation invoked and its arguments
    cpc,        \* the operation's position: idle / lookup / create / list / request / done
    requests,   \* the calls the operation made of the HttpClient, in order
    answers,    \* the HttpClient's answers to those calls, in order
    cres,       \* how the operation ended
    cid,        \* the CFToolsId resolve() returned to the operation
    secs,       \* the wall clock in seconds (new Date().getTime() / 1000)
    entries,    \* InMemoryCache.entries: cache key -> [value, notAfter]
    sets,       \* per cache key: the arguments and time of the latest set()
    got,        \* the latest get() of the application: its key, time and result
    cops,       \* Cache calls made by the application so far
    caching,    \* the CachingCFToolsClient: its config and defaultServerApiId
    app,        \* the operations the application calls the caching client with
    ccalls,     \* the calls of the caching client, in the order they began
    wrapped,    \* the calls that reached the wrapped client, in order
    options,    \* HttpClientOptions: enableDebugLogging and logBody
    secrets,    \* of each of two runs: the login secret and the tokens in use
    console     \* of each of the two runs: the lines written by console.log

clockVars == <<now, ticks>>
provVars == <<provider, logins, issued, lastOp, ops>>
procVars == <<pc, verb, attempt, fetched, authz, headers, sent, resp, lresp, log,
             result, pv>>
clsVars == <<clsIn, clsOut>>
cliVars == <<cfg, op, cpc, requests, answers, cres, cid>>
memVars == <<secs, entries, sets, got, cops>>
cacheVars == <<caching, app, ccalls, wrapped>>
logVars == <<options, secrets, console>>
vars == <<clockVars, provVars, procVars, clsVars, cliVars, memVars, cacheVars, logVars>>

(***************************************************************************)
(* Bounds                                                                  *)
(***************************************************************************)
NCalls == 1
MaxLogins == 3
MaxTicks == 1
MaxOps == 3
StartDays == 31
MaxCalls == 2
FrameCalls == 3
MaxLines == 2

Calls == 1..NCalls
App == 0
Procs == {App} \cup Calls

(***************************************************************************)
(* Dates (JavaScript Date, at hour granularity)                            *)
(***************************************************************************)
Undefined == -1

DaysInMonth == <<31, 28, 31, 30, 31, 30, 31, 31, 30, 31, 30, 31>>

RECURSIVE FirstDayOfMonth(_)
FirstDayOfMonth(m) == IF m = 1 THEN 0 ELSE FirstDayOfMonth(m - 1) + DaysInMonth[m - 1]

MonthOf(d) ==
    CHOOSE m \in 1..12 : FirstDayOfMonth(m) <= d /\ d < FirstDayOfMonth(m) + DaysInMonth[m]

\* the day number (since 1 January of year 0) of the first of the month of instant t
MonthStartDay(t) ==
    LET d == t \div 24
    IN  (d \div 365) * 365 + FirstDayOfMonth(MonthOf(d % 365))

getHours(t) == t % 24

getDate(t) == (t \div 24) - MonthStartDay(t) + 1

\* Date.setDate(n): day n of the month of t, same time of day; n beyond the
\* month's length runs on into the following month(s)
setDate(t, n) == (MonthStartDay(t) + n - 1) * 24 + (t % 24)

(***************************************************************************)
(* Authorization and CFToolsAuthorizationProvider                          *)
(***************************************************************************)
TokenLifetime == 23

\* the token of process.env.CFTOOLS_API_TOKEN; the login endpoint issues 1, 2, ...
EnvToken == 0

Authorization(token, created, expiresAt) ==
    [token |-> token, created |-> created, expiresAt |-> expiresAt]

NoAuthorization == Authorization(Undefined, Undefined, Undefined)

asHeader(a) == <<"Bearer", a.token>>

NoHeader == <<>>

EmptyProvider == [token |-> Undefined, created |-> Undefined, expired |-> Undefined]

setTokenOnce(p, token, t) ==
    IF p.token # Undefined THEN p
    ELSE [token |-> token, created |-> t, expired |-> setDate(t, getHours(t) + TokenLifetime)]

\* setToken(token), called at instant t
setToken(p, token, t) ==
    [token |-> token, created |-> t, expired |-> setDate(t, getHours(t) + TokenLifetime)]

reportExpiredNoop(p) == p

\* reportExpired()
reportExpired(p) == [p EXCEPT !.token = Undefined, !.expired = Undefined]

\* hasToken(), called at instant t
hasToken(p, t) == p.token # Undefined /\ p.expired # Undefined /\ p.expired <= t

\* the answers of the login endpoint: a token, an HTTP error status, no answer
LoginOutcomes == {"token", "403", "500", "401", "network"}

fetchTokenErrorOnly403(outcome) ==
    IF outcome = "403" THEN "InvalidCredentials" ELSE outcome

\* the catch clause of fetchToken(): what a failed login exchange is thrown as
fetchTokenError(outcome) ==
    IF outcome \in {"500", "403"} THEN "InvalidCredentials" ELSE outcome

(***************************************************************************)
(* Errors and the error classifier                                         *)
(***************************************************************************)
\* an error: its class, the TokenExpiredInfo it carries (TokenExpired only)
\* and, for a raw HTTPError, the status of its response
Err(kind, info, status) == [kind |-> kind, info |-> info, status |-> status]

Statuses == {400, 401, 403, 404, 429, 500, 503}

Tags == {"invalid-bucket", "rate-limited", "duplicate", "no-grant", "expired-token",
         "unexpected-error", "timeout", "system-unavailable", "invalid-resource", ""}

\* a failed exchange: the status, the body (a JSON object, a JSON primitive
\* such as null, or text that is no JSON) and the value of the object's error
\* field ("" without one); status 0 is a failure without any response
\* (error.response is undefined)
FailedResponses ==
    [status : Statuses, body : {"object"}, tag : Tags]
        \cup [status : Statuses, body : {"invalid", "primitive"}, tag : {""}]
        \cup {[status |-> 0, body |-> "none", tag |-> ""]}

OkResponse == [status |-> 200, body |-> "object", tag |-> ""]

\* Authorization.throwExpired(url)
throwExpired(auth) == Err("TokenExpired", auth, Undefined)

\* errorMessage(response) === tag, or the SyntaxError of JSON.parse, or the
\* TypeError of 'error' in body
tagIs(r, tag, then, else) ==
    IF r.body = "invalid" THEN Err("SyntaxError", NoAuthorization, Undefined)
    ELSE IF r.body = "primitive" THEN Err("TypeError", NoAuthorization, Undefined)
    ELSE IF r.tag = tag THEN then
    ELSE else

fromHttpError(r, auth) ==
    LET typed(kind) == Err(kind, NoAuthorization, Undefined)
        raw == Err("HTTPError", NoAuthorization, r.status)
    IN  IF r.status = 0 THEN typed("TypeError")
        ELSE IF r.status = 404
            THEN tagIs(r, "invalid-bucket", typed("ResourceNotConfigured"),
                       typed("ResourceNotFound"))
        ELSE IF r.status = 429 THEN typed("RequestLimitExceeded")
        ELSE IF r.status = 400
            THEN tagIs(r, "duplicate", typed("DuplicateResourceCreation"), raw)
        ELSE IF r.status = 403
            THEN tagIs(r, "no-grant", typed("GrantRequired"),
                 tagIs(r, "expired-token",
                       IF auth = NoAuthorization THEN typed("TypeError")
                       ELSE throwExpired(auth),
                       raw))
        ELSE IF r.status = 500
            THEN tagIs(r, "unexpected-error", typed("UnknownError"),
                 tagIs(r, "timeout", typed("TimeoutError"),
                 tagIs(r, "system-unavailable", typed("CFToolsUnavailable"), raw)))
        ELSE raw

isTokenExpiredNever(err) == FALSE

isTokenExpiredAny403(err) == err.kind \in {"TokenExpired", "GrantRequired"}

\* err instanceof TokenExpired
isTokenExpired(err) == err.kind = "TokenExpired"

retryAlways(n) == TRUE

\* the catch of the re-execution rethrows: only the first execution is retried
retryAllowed(n) == n = 1

(***************************************************************************)
(* GotHttpClient: attaching the credential                                 *)
(***************************************************************************)
NoContext == [present |-> FALSE, authorization |-> NoAuthorization]

Context(a) == [present |-> TRUE, authorization |-> a]

\* populateContext(options, contextOverride): the authorization header of the
\* request; optionsAuth is options.context.authorization
populateContext(hdr, optionsAuth, contextOverride) ==
    LET a == IF contextOverride.present THEN contextOverride.authorization
             ELSE optionsAuth
    IN  IF a # NoAuthorization THEN asHeader(a) ELSE hdr

\* the context get / post / delete hand on to populateContext
contextOverrideOf(v, context) == IF v = "get" THEN context ELSE NoContext

(***************************************************************************)
(* GotCFToolsClient: identifiers, the client and its builder               *)
(***************************************************************************)
\* a GenericId: its class and its id string
GenericId(kind, id) == [kind |-> kind, id |-> id]

CFToolsId(id) == GenericId("CFToolsId", id)

SteamId64(id) == GenericId("SteamId64", id)

\* the identifiers handed to the operations: one of each class
Identifiers ==
    {CFToolsId("c0"), SteamId64("s1"), GenericId("BattlEyeGUID", "g1"),
     GenericId("BohemiaInteractiveId", "b1"), GenericId("IPv4", "127.0.0.1"),
     GenericId("IPv6", "::1")}

isIpAddress(g) == g.kind \in {"IPv4", "IPv6"}

\* no ServerApiId (undefined); the ServerApiIds are 1, 2, ...
NoServerApiId == 0

\* new GotCFToolsClient(client, serverApiId, enterpriseToken,
\* hasAccountCreationAccess, auth); auth is "none" (undefined) or the class
\* of the provider
GotCFToolsClient(serverApiId, enterpriseToken, hasAccountCreationAccess, auth) ==
    [serverApiId |-> serverApiId, enterpriseToken |-> enterpriseToken,
     hasAccountCreationAccess |-> hasAccountCreationAccess, auth |-> auth]

\* CFToolsClientBuilder.build() without a cache
build(credentials, enterpriseToken, hasAccountCreationAccess, serverApiId) ==
    GotCFToolsClient(serverApiId, enterpriseToken, hasAccountCreationAccess,
        IF credentials /\ enterpriseToken THEN "enterprise"
        ELSE IF credentials THEN "cftools"
        ELSE "noop")

\* withAccountCreationAPI(true) throws unless an enterprise token was set
BuiltClients ==
    {build(t[1], t[2], t[3], t[4]) :
        t \in {u \in BOOLEAN \X BOOLEAN \X BOOLEAN \X {NoServerApiId, 1} : u[3] => u[2]}}

\* every client the constructor makes, by the builder or directly
Clients ==
    {GotCFToolsClient(s, e, a, auth) :
        s \in {NoServerApiId, 1}, e \in BOOLEAN, a \in BOOLEAN,
        auth \in {"none", "noop", "cftools", "enterprise"}}

DefaultClient == build(TRUE, FALSE, FALSE, NoServerApiId)

\* an operation of the client: its name, the player identifier it is about,
\* whether the caller gave the bare identifier or a request object, and the
\* serverApiId of the request (NoServerApiId: none)
Operation(name, playerId, form, serverApiId) ==
    [name |-> name, playerId |-> playerId, form |-> form, serverApiId |-> serverApiId]

NoId == GenericId("none", "")

NoOperation == Operation("none", NoId, "bare", NoServerApiId)

\* how an operation ended: "Success" or the class of the error thrown; the
\* id string it returns or carries; the notice an AccountCreationFailed
\* carries; the status of a raw HTTPError
Result(kind, id, notice, status) ==
    [kind |-> kind, id |-> id, notice |-> notice, status |-> status]

NoResult == Result("pending", "", "", Undefined)

(***************************************************************************)
(* InMemoryCache (src/src/internal/http.spec.ts 219-250) and               *)
(* CachingCFToolsClient (src/src/internal/caching-cftools-client.ts).      *)
(* Instants are counted in seconds since the cache was constructed.        *)
(***************************************************************************)

\* JavaScript's undefined and null as results and cached values
undefined == "undefined"
null == "null"

\* set(cacheKey, value) without the optional expiry
Omitted == <<>>

\* the expiry set() assumes when it takes none
DefaultExpiry == 3600

Given(expiry) == <<expiry>>

\* expiry || 3600
expiryOrDefault(expiry) ==
    IF expiry = Omitted \/ expiry = Given(0) THEN DefaultExpiry ELSE expiry[1]

CacheEntry(value, notAfter) == [value |-> value, notAfter |-> notAfter]

NoEntries == <<>>

\* this.entries.delete(cacheKey)
delete(es, cacheKey) == [k \in DOMAIN es \ {cacheKey} |-> es[k]]

\* InMemoryCache.get at instant t: what it returns and the entries it leaves
get(es, cacheKey, t) ==
    IF cacheKey \notin DOMAIN es THEN [value |-> undefined, entries |-> es]
    ELSE IF es[cacheKey].notAfter <= t
        THEN [value |-> undefined, entries |-> delete(es, cacheKey)]
    ELSE [value |-> es[cacheKey].value, entries |-> es]

setUnlessNull(es, cacheKey, value, expiry, t) ==
    IF value = null THEN es
    ELSE [k \in DOMAIN es \cup {cacheKey} |->
             IF k = cacheKey THEN CacheEntry(value, t + expiryOrDefault(expiry)) ELSE es[k]]

\* InMemoryCache.set at instant t: the entries it leaves
set(es, cacheKey, value, expiry, t) ==
    [k \in DOMAIN es \cup {cacheKey} |->
        IF k = cacheKey THEN CacheEntry(value, t + expiryOrDefault(expiry)) ELSE es[k]]

\* a set() as its caller saw it: its arguments, its instant and its place n
\* among the application's calls of the cache
SetCall(value, expiry, at, n) == [value |-> value, expiry |-> expiry, at |-> at, n |-> n]

recorded(ss, cacheKey, value, expiry, t, n) ==
    [k \in DOMAIN ss \cup {cacheKey} |->
        IF k = cacheKey THEN SetCall(value, expiry, t, n) ELSE ss[k]]

\* a get() as the application saw it: its key, its result, its instant and
\* its place n among the application's calls of the cache
GetCall(cacheKey, value, at, n) ==
    [cacheKey |-> cacheKey, value |-> value, at |-> at, n |-> n]

NoGet == GetCall(<<>>, undefined, 0, 0)

\* CacheConfiguration: the categories and the builder's expiry of each
Categories ==
    {"appGrants", "leaderboard", "serverInfo", "gameSessions", "gameServerDetails",
     "playerDetails", "priorityQueue", "whitelist", "banlist", "resolve"}

\* stands for Number.MAX_SAFE_INTEGER: later than every instant of the model
MaxSafeInteger == 1000000000

DefaultCacheConfig ==
    [c \in Categories |->
        CASE c = "appGrants" -> 60
          [] c \in {"leaderboard", "serverInfo"} -> 30
          [] c \in {"gameSessions", "gameServerDetails", "playerDetails", "banlist"} -> 10
          [] c \in {"priorityQueue", "whitelist"} -> 20
          [] c = "resolve" -> MaxSafeInteger]

\* withCacheConfiguration(config): the defaults, with the options given
withCacheConfiguration(config) ==
    [c \in Categories |-> IF c \in DOMAIN config THEN config[c] ELSE DefaultCacheConfig[c]]

\* new CachingCFToolsClient(cache, config, client, defaultServerApiId)
CachingCFToolsClient(config, defaultServerApiId) ==
    [config |-> config, defaultServerApiId |-> defaultServerApiId]

DefaultCaching == CachingCFToolsClient(DefaultCacheConfig, 1)

\* the caching clients the builder makes: the default expiries or one of
\* them replaced, with or without a default server
CachingClients ==
    {CachingCFToolsClient(withCacheConfiguration(config), 1) :
        config \in {<<>>, [playerDetails |-> 0], [priorityQueue |-> -60]}}
    \cup {CachingCFToolsClient(DefaultCacheConfig, NoServerApiId)}

(***************************************************************************)
(* httpClient(enterprise, options): the logging hooks                      *)
(***************************************************************************)
\* two runs of the program, to be compared line by line
Runs == {1, 2}

\* what a run keeps secret: the secret of the LoginCredentials, the token
\* the login endpoint issues and the enterprise access token
Secrets(secret, token, enterpriseToken) ==
    [secret |-> secret, token |-> token, enterpriseToken |-> enterpriseToken]

NoSecrets == Secrets("", "", "")

HttpClientOptions(enableDebugLogging, logBody) ==
    [enableDebugLogging |-> enableDebugLogging, logBody |-> logBody]

NoLogging == HttpClientOptions(FALSE, FALSE)

Redacted == "[REDACTED]"

Disabled == "[DISABLED]"

redactHeaders == {"x-enterprise-access-token", "authorization"}

redactPaths == {"/v1/auth/register"}

\* the header names the SDK and got's defaults write, and each in lower case
LowerCase ==
    [Authorization |-> "authorization",
     X_Enterprise_Access_Token |-> "x-enterprise-access-token",
     user_agent |-> "user-agent"]

\* got hands the hooks options.headers with every name in lower case
lowercaseKeys(h) ==
    [n \in {LowerCase[k] : k \in DOMAIN h} |->
        h[CHOOSE k \in DOMAIN h : LowerCase[k] = n]]

redactedHeadersAuthorizationOnly(h) ==
    [n \in DOMAIN h |-> IF n = "authorization" THEN Redacted ELSE h[n]]

\* redactedHeaders(h)
redactedHeaders(h) ==
    [n \in DOMAIN h |-> IF n \in redactHeaders THEN Redacted ELSE h[n]]

\* a body: none (undefined), a string, or an object with toString()
NoBody == [kind |-> "none", content |-> ""]

Body(kind, content) == [kind |-> kind, content |-> content]

\* the options of a request as beforeRequest sees them
Options(method, pathname, hdrs, body) ==
    [method |-> method, pathname |-> pathname, headers |-> lowercaseKeys(hdrs),
     body |-> body]

\* a response as afterResponse and beforeError see it; statusCode 0: none
Response(method, pathname, statusCode, rawBody) ==
    [method |-> method, pathname |-> pathname, statusCode |-> statusCode,
     rawBody |-> rawBody]

\* hooks.beforeRequest: the line it writes
beforeRequest(o, opts) ==
    LET raw == o.body
        truthy == raw.kind = "object" \/ (raw.kind = "string" /\ raw.content # "")
        body == IF opts.logBody /\ truthy
                THEN IF o.pathname \in redactPaths THEN Redacted
                     ELSE raw.content
                ELSE Disabled
    IN  <<"Doing", o.method, o.pathname, redactedHeaders(o.headers), body>>

\* hooks.afterResponse: the line it writes
afterResponse(r, opts) ==
    LET body == IF r.pathname \in redactPaths /\ r.statusCode < 400 THEN Redacted
                ELSE IF opts.logBody THEN r.rawBody
                ELSE Disabled
    IN  <<"Response", r.method, r.pathname, r.statusCode, body>>

\* hooks.beforeError: the line it writes; code is error.code
beforeError(r, code, opts) ==
    LET raw == IF r.statusCode = 0 THEN "" ELSE r.rawBody
        body == IF opts.logBody /\ raw # "" THEN raw ELSE Disabled
    IN  <<"RequestError", r.method, r.pathname, r.statusCode, code, body>>

(***************************************************************************)
(* Processes: the application calling the provider directly (App) and the  *)
(* logical calls made through the client and GotHttpClient (Calls)         *)
(***************************************************************************)
Pending == [kind |-> "pending", info |-> NoAuthorization, status |-> Undefined, att |-> 0]

\* how a call ended: a success or an error, and the execution (0: none, the
\* login exchange) whose answer it is
Outcome(kind, info, status, att) ==
    [kind |-> kind, info |-> info, status |-> status, att |-> att]

Raised(err, att) == Outcome(err.kind, err.info, err.status, att)

NotBegun ==
    [began |-> FALSE, cached |-> EmptyProvider, at |-> Undefined, login |-> FALSE,
     prev |-> "none", issuedBefore |-> 0]

\* what a provide() beginning now sees: the slot p, the clock, the provider
\* method called before it, and whether it starts a login exchange
Begun(p, prev) ==
    [began |-> TRUE, cached |-> p, at |-> now, login |-> ~hasToken(p, now),
     prev |-> prev, issuedBefore |-> issued]

NotClassified == Err("none", NoAuthorization, Undefined)

NoInput == [r |-> OkResponse, auth |-> NoAuthorization]

\* the constructor: the slot is empty, or holds the token of CFTOOLS_API_TOKEN
Constructed(t) == {EmptyProvider, setToken(EmptyProvider, EnvToken, t)}

InitWith(times, inputs, clients, cachings, loggings) ==
    /\ now \in times
    /\ ticks = 0
    /\ provider \in Constructed(now)
    /\ logins = 0
    /\ issued = 0
    /\ lastOp = "none"
    /\ ops = 0
    /\ pc = [p \in Procs |-> "idle"]
    /\ verb = [p \in Procs |-> "none"]
    /\ attempt = [p \in Procs |-> 0]
    /\ fetched = [p \in Procs |-> Undefined]
    /\ authz = [p \in Procs |-> <<>>]
    /\ headers = [p \in Procs |-> NoHeader]
    /\ sent = [p \in Procs |-> <<>>]
    /\ resp = [p \in Procs |-> <<>>]
    /\ lresp = [p \in Procs |-> <<>>]
    /\ log = [p \in Procs |-> <<>>]
    /\ result = [p \in Procs |-> Pending]
    /\ pv = [p \in Procs |-> NotBegun]
    /\ clsIn \in inputs
    /\ clsOut = NotClassified
    /\ cfg \in clients
    /\ op = NoOperation
    /\ cpc = "idle"
    /\ requests = <<>>
    /\ answers = <<>>
    /\ cres = NoResult
    /\ cid = NoId
    /\ secs = 0
    /\ entries = NoEntries
    /\ sets = NoEntries
    /\ got = NoGet
    /\ cops = 0
    /\ \E u \in cachings : caching = u[1] /\ app = u[2]
    /\ ccalls = <<>>
    /\ wrapped = <<>>
    /\ \E u \in loggings : options = u[1] /\ secrets = u[2]
    /\ console = [r \in Runs |-> <<>>]

\* a client made without HttpClientOptions
InitAt(times, inputs, clients, cachings) ==
    InitWith(times, inputs, clients, cachings, {<<NoLogging, [r \in Runs |-> NoSecrets]>>})

\* every hour of the first StartDays days of the year
StartTimes == {d * 24 + h : d \in 0..(StartDays - 1), h \in 0..23}

\* the clock moves on by an hour or by thirty days
TickSteps == {1, 24 * 30}

Tick(d) ==
    /\ ticks < MaxTicks
    /\ now' = now + d
    /\ ticks' = ticks + 1
    /\ UNCHANGED <<provVars, procVars, clsVars, logVars, memVars, cacheVars, cliVars>>

\* process p starts execution number n of its request with header h
Execute(p, n, h) ==
    /\ pc' = [pc EXCEPT ![p] = "exec"]
    /\ attempt' = [attempt EXCEPT ![p] = n]
    /\ headers' = [headers EXCEPT ![p] = h]
    /\ sent' = [sent EXCEPT ![p] = Append(@, h)]
    /\ log' = [log EXCEPT ![p] = Append(@, "exec")]

\* provide() finds no usable token and posts to v1/auth/register
StartLogin(p) ==
    /\ pc' = [pc EXCEPT ![p] = "login"]
    /\ logins' = logins + 1

\* the application calls provide() itself
AppProvide ==
    /\ pc[App] \in {"idle", "done"}
    /\ ops < MaxOps
    /\ hasToken(provider, now) \/ logins < MaxLogins
    /\ ops' = ops + 1
    /\ lastOp' = "provide"
    /\ verb' = [verb EXCEPT ![App] = "provide"]
    /\ pv' = [pv EXCEPT ![App] = Begun(provider, lastOp)]
    /\ fetched' = [fetched EXCEPT ![App] = Undefined]
    /\ lresp' = [lresp EXCEPT ![App] = <<>>]
    /\ IF hasToken(provider, now)
       THEN LET a == Authorization(provider.token, provider.created, provider.expired)
            IN  /\ pc' = [pc EXCEPT ![App] = "done"]
                /\ authz' = [authz EXCEPT ![App] = <<a>>]
                /\ result' = [result EXCEPT ![App] = Outcome("Success", a, Undefined, 0)]
                /\ UNCHANGED logins
       ELSE /\ StartLogin(App)
            /\ authz' = [authz EXCEPT ![App] = <<>>]
            /\ result' = [result EXCEPT ![App] = Pending]
    /\ UNCHANGED <<clockVars, provider, issued, attempt, headers, sent, resp, log, clsVars, logVars, memVars, cacheVars,
                   cliVars>>

\* the application calls reportExpired() itself
AppReportExpired ==
    /\ pc[App] \in {"idle", "done"}
    /\ ops < MaxOps
    /\ ops' = ops + 1
    /\ lastOp' = "reportExpired"
    /\ provider' = reportExpired(provider)
    /\ UNCHANGED <<clockVars, logins, issued, procVars, clsVars, logVars, memVars, cacheVars, cliVars>>

\* a client operation: authorization = await auth.provide(), then
\* http.get / post / delete with context {authorization}
CallStart(c, v) ==
    /\ pc[c] = "idle"
    /\ hasToken(provider, now) \/ logins < MaxLogins
    /\ lastOp' = "provide"
    /\ verb' = [verb EXCEPT ![c] = v]
    /\ pv' = [pv EXCEPT ![c] = Begun(provider, lastOp)]
    /\ IF hasToken(provider, now)
       THEN LET a == Authorization(provider.token, provider.created, provider.expired)
            IN  /\ authz' = [authz EXCEPT ![c] = <<a>>]
                /\ Execute(c, 1, populateContext(headers[c], a, NoContext))
                /\ UNCHANGED logins
       ELSE /\ StartLogin(c)
            /\ UNCHANGED <<authz, attempt, headers, sent, log>>
    /\ UNCHANGED <<clockVars, provider, issued, ops, fetched, resp, lresp, result, clsVars, logVars, memVars, cacheVars,
                   cliVars>>

\* the login endpoint answers the login exchange of process p: fetchToken()
\* stores and returns the token, or throws
LoginAnswer(p, o) ==
    /\ pc[p] = "login"
    /\ lresp' = [lresp EXCEPT ![p] = Append(@, o)]
    /\ IF o = "token"
       THEN /\ issued' = issued + 1
            /\ provider' = setToken(provider, issued + 1, now)
            /\ fetched' = [fetched EXCEPT ![p] = issued + 1]
            /\ pc' = [pc EXCEPT ![p] = "resume"]
            /\ UNCHANGED result
       ELSE /\ pc' = [pc EXCEPT ![p] = "done"]
            /\ result' = [result EXCEPT ![p] =
                    Outcome(fetchTokenError(o), NoAuthorization, Undefined, 0)]
            /\ UNCHANGED <<issued, provider, fetched>>
    /\ UNCHANGED <<clockVars, logins, lastOp, ops, verb, attempt, authz, headers, sent,
                   resp, log, pv, clsVars, logVars, memVars, cacheVars, cliVars>>

\* provide() resumes after fetchToken() and builds the Authorization from the
\* returned token and the slot's created and expired; a call then sends its
\* next execution
ProvideResume(p) ==
    /\ pc[p] = "resume"
    /\ LET a == Authorization(fetched[p], provider.created, provider.expired)
       IN  /\ authz' = [authz EXCEPT ![p] = Append(@, a)]
           /\ IF verb[p] = "provide"
              THEN /\ pc' = [pc EXCEPT ![p] = "done"]
                   /\ result' = [result EXCEPT ![p] = Outcome("Success", a, Undefined, 0)]
                   /\ UNCHANGED <<attempt, headers, sent, log>>
              ELSE /\ Execute(p, attempt[p] + 1,
                              populateContext(headers[p], Head(authz'[p]),
                                  IF attempt[p] = 0 THEN NoContext
                                  ELSE contextOverrideOf(verb[p], Context(a))))
                   /\ UNCHANGED result
    /\ UNCHANGED <<clockVars, provVars, verb, fetched, resp, lresp, pv, clsVars, logVars, memVars, cacheVars, cliVars>>

\* the transport answers the execution of call c in flight: the body of
\* withErrorHandler after its await
Respond(c, r) ==
    /\ pc[c] = "exec"
    /\ resp' = [resp EXCEPT ![c] = Append(@, r)]
    /\ LET n == attempt[c]
           err == fromHttpError(r, authz[c][n])
       IN  IF r = OkResponse
           THEN /\ pc' = [pc EXCEPT ![c] = "done"]
                /\ result' = [result EXCEPT ![c] =
                        Outcome("Success", NoAuthorization, Undefined, n)]
                /\ UNCHANGED <<provider, logins, lastOp, pv, log, attempt, headers, sent,
                               authz>>
           ELSE IF retryAllowed(n) /\ isTokenExpired(err)
           THEN /\ provider' = reportExpired(provider)
                /\ hasToken(provider', now) \/ logins < MaxLogins
                /\ lastOp' = "provide"
                /\ pv' = [pv EXCEPT ![c] = Begun(provider', "reportExpired")]
                /\ IF hasToken(provider', now)
                   THEN LET a == Authorization(provider'.token, provider'.created,
                                               provider'.expired)
                        IN  /\ authz' = [authz EXCEPT ![c] = Append(@, a)]
                            /\ pc' = [pc EXCEPT ![c] = "exec"]
                            /\ attempt' = [attempt EXCEPT ![c] = n + 1]
                            /\ headers' = [headers EXCEPT ![c] =
                                   populateContext(@, Head(authz[c]),
                                       contextOverrideOf(verb[c], Context(a)))]
                            /\ sent' = [sent EXCEPT ![c] = Append(@, headers'[c])]
                            /\ log' = [log EXCEPT ![c] =
                                   @ \o <<"reportExpired", "provide", "exec">>]
                            /\ UNCHANGED logins
                   ELSE /\ StartLogin(c)
                        /\ log' = [log EXCEPT ![c] = @ \o <<"reportExpired", "provide">>]
                        /\ UNCHANGED <<authz, attempt, headers, sent>>
                /\ UNCHANGED result
           ELSE /\ pc' = [pc EXCEPT ![c] = "done"]
                /\ result' = [result EXCEPT ![c] = Raised(err, n)]
                /\ UNCHANGED <<provider, logins, lastOp, pv, log, attempt, headers, sent,
                               authz>>
    /\ UNCHANGED <<clockVars, issued, ops, verb, fetched, lresp, clsVars, logVars, memVars, cacheVars, cliVars>>

\* fromHttpError applied to one failed exchange
Classify ==
    /\ clsOut = NotClassified
    /\ clsOut' = fromHttpError(clsIn.r, clsIn.auth)
    /\ UNCHANGED <<clockVars, provVars, procVars, clsIn, cliVars, memVars, cacheVars,
                   logVars>>

(***************************************************************************)
(* GotCFToolsClient: the operations                                        *)
(***************************************************************************)
Info(assert, resolves, server, method, endpoint) ==
    [assert |-> assert, resolves |-> resolves, server |-> server, method |-> method,
     endpoint |-> endpoint]

\* the operations: whether it calls assertAuthentication(); what it hands to
\* resolve() ("arg": its argument as given, "id": request.id, "ban": the ban
\* operations' own rules, "none": it resolves nothing); whether its URL names
\* the server; the HttpClient method and the endpoint of its request
OpInfo(name) ==
    CASE name = "getAppGrants" -> Info(TRUE, "none", FALSE, "get", "v1/@app/grants")
      [] name = "getPlayerDetails" -> Info(TRUE, "arg", TRUE, "get", "player")
      [] name = "deletePlayerDetails" -> Info(TRUE, "arg", TRUE, "delete", "player")
      [] name = "getLeaderboard" -> Info(TRUE, "none", TRUE, "get", "leaderboard")
      [] name = "getPriorityQueue" -> Info(TRUE, "arg", TRUE, "get", "queuepriority")
      [] name = "putPriorityQueue" -> Info(TRUE, "id", TRUE, "post", "queuepriority")
      [] name = "deletePriorityQueue" -> Info(TRUE, "arg", TRUE, "delete", "queuepriority")
      [] name = "getWhitelist" -> Info(TRUE, "arg", TRUE, "get", "whitelist")
      [] name = "putWhitelist" -> Info(TRUE, "id", TRUE, "post", "whitelist")
      [] name = "deleteWhitelist" -> Info(TRUE, "arg", TRUE, "delete", "whitelist")
      [] name = "getGameServerDetails" -> Info(FALSE, "none", FALSE, "get", "v1/gameserver")
      [] name = "getServerInfo" -> Info(FALSE, "none", TRUE, "get", "info")
      [] name = "listGameSessions" -> Info(FALSE, "none", TRUE, "get", "GSM/list")
      [] name = "gameLabsAction" -> Info(FALSE, "none", TRUE, "post", "GameLabs/action")
      [] name = "listBans" -> Info(FALSE, "ban", FALSE, "get", "bans")
      [] name = "putBan" -> Info(FALSE, "ban", FALSE, "post", "bans")
      [] name = "deleteBan" -> Info(FALSE, "ban", FALSE, "delete", "bans")
      [] name = "resolve" -> Info(FALSE, "arg", FALSE, "none", "none")

OpNames ==
    {"getAppGrants", "getPlayerDetails", "deletePlayerDetails", "getLeaderboard",
     "getPriorityQueue", "putPriorityQueue", "deletePriorityQueue", "getWhitelist",
     "putWhitelist", "deleteWhitelist", "getGameServerDetails", "getServerInfo",
     "listGameSessions", "gameLabsAction", "listBans", "putBan", "deleteBan",
     "resolve"}

\* the serverApiIds a request object may carry: none, or one that is not the
\* client's default
Overrides == {NoServerApiId, 2}

\* the calls an application can make: player operations take the bare
\* identifier or a request object, the others a request object
Operations ==
    {o \in [name : OpNames, playerId : Identifiers \cup {NoId},
            form : {"bare", "request"}, serverApiId : Overrides] :
        LET i == OpInfo(o.name)
        IN  /\ (i.resolves = "none") = (o.playerId = NoId)
            /\ o.form = "bare" => (i.resolves = "arg" /\ o.serverApiId = NoServerApiId)
            /\ o.serverApiId # NoServerApiId => i.server}

\* what the operation hands to resolve(): the GenericId or {playerId: GenericId}
resolveArg(o) ==
    IF OpInfo(o.name).resolves = "id" \/ o.form = "bare" THEN o.playerId
    ELSE [playerId |-> o.playerId]

\* 'playerId' in id ? id.playerId : id
playerIdOf(arg) == IF "playerId" \in DOMAIN arg THEN arg.playerId ELSE arg

\* what the operation hands to resolveServerApiId(): request.serverApiId, or
\* none for undefined and for a bare identifier
overrideOf(o) == IF o.form = "request" THEN o.serverApiId ELSE NoServerApiId

resolveServerApiIdDefaultFirst(default, override) ==
    IF default # NoServerApiId THEN default ELSE override

\* resolveServerApiId(request); NoServerApiId stands for throw new
\* ServerApiIdRequired()
resolveServerApiId(default, override) ==
    IF override # NoServerApiId THEN override
    ELSE IF default # NoServerApiId THEN default
    ELSE NoServerApiId

\* CachingCFToolsClient.serverApiId(r); NoServerApiId stands for throw new
\* ServerApiIdRequired()
serverApiId(default, override) ==
    LET server == IF override # NoServerApiId THEN override ELSE default
    IN  server

\* assertAuthentication() returns (TRUE) or throws AuthenticationRequired
assertAuthentication(auth) == auth # "none"

requestUsesAccountCreationAnyId(c, playerId) ==
    c.hasAccountCreationAccess /\ c.enterpriseToken

requestUsesAccountCreationNoToken(c, playerId) ==
    c.hasAccountCreationAccess /\ playerId.kind = "SteamId64"

\* this.hasAccountCreationAccess === true && this.enterpriseToken !== undefined
\* && playerId instanceof SteamId64
requestUsesAccountCreation(c, playerId) ==
    c.hasAccountCreationAccess /\ c.enterpriseToken /\ playerId.kind = "SteamId64"

AccountCreated == "Account Creation API account created"

accountCreatedUnlessFailed(notice) == notice # "Failed"

\* response.notice !== 'Account Creation API account created' is false
accountCreated(notice) == notice = AccountCreated

isCanonicalNever(playerId) == FALSE

\* playerId instanceof CFToolsId
isCanonical(playerId) == playerId.kind = "CFToolsId"

\* what provide() did: the error it threw ("": none), the Authorization it
\* returned, the provider's slot and the tokens issued afterwards, and the
\* login exchanges it made
Provided(thrown, a, p, iss, n) ==
    [thrown |-> thrown, a |-> a, provider |-> p, issued |-> iss, logins |-> n]

\* NoOpAuthorizationProvider.provide(): an empty credential, no login exchange
provideNoOp(p, iss) == Provided("", NoAuthorization, p, iss, 0)

\* await this.auth!.provide(this.client) at instant t; lo is the answer of
\* the login endpoint, should provide() post to it
provide(auth, p, t, iss, lo) ==
    IF auth = "none" THEN Provided("TypeError", NoAuthorization, p, iss, 0)
    ELSE IF auth = "noop" THEN provideNoOp(p, iss)
    ELSE IF hasToken(p, t)
        THEN Provided("", Authorization(p.token, p.created, p.expired), p, iss, 0)
    ELSE IF lo = "token"
        THEN LET q == setToken(p, iss + 1, t)
             IN  Provided("", Authorization(iss + 1, q.created, q.expired), q, iss + 1, 1)
    ELSE Provided(fetchTokenError(lo), NoAuthorization, p, iss, 1)

\* a call of the HttpClient: the method, the endpoint, the server of the URL,
\* the identifier sent (identifier, cftools_id, filter or ban_id), the create
\* flag, the format of a ban and context.authorization
Request(method, endpoint, server, identifier, create, format) ==
    [method |-> method, endpoint |-> endpoint, server |-> server,
     identifier |-> identifier, create |-> create, format |-> format,
     authorization |-> NoAuthorization]

Lookup(playerId, create) ==
    Request("get", "v1/users/lookup", NoServerApiId, playerId.id, create, "")

\* the HttpClient's answer: a response (status 200) with the fields the
\* client reads, or the failed exchange that fromHttpError classifies
Answer(status, tag, cftools_id, notice, listed) ==
    [status |-> status, body |-> "object", tag |-> tag, cftools_id |-> cftools_id,
     notice |-> notice, entries |-> listed]

Failure(err) == Result(err.kind, "", "", err.status)

\* the operation in progress
Here ==
    [cpc |-> cpc, requests |-> requests, cres |-> cres, cid |-> cid,
     provider |-> provider, issued |-> issued, logins |-> logins]

Becomes(s) ==
    /\ cpc' = s.cpc
    /\ requests' = s.requests
    /\ cres' = s.cres
    /\ cid' = s.cid
    /\ provider' = s.provider
    /\ issued' = s.issued
    /\ logins' = s.logins

\* the operation returns or throws
ends(s, res) == [s EXCEPT !.cpc = "done", !.cres = res]

\* this.client.get / post / delete(url, {..., context: {authorization: await
\* this.auth!.provide(this.client)}}): provide(), then the call, which is
\* awaited at position next
send(s, rq, next, lo) ==
    LET pr == provide(cfg.auth, s.provider, now, s.issued, lo)
        t == [s EXCEPT !.provider = pr.provider, !.issued = pr.issued,
                       !.logins = @ + pr.logins]
    IN  IF pr.thrown # "" THEN ends(t, Result(pr.thrown, "", "", Undefined))
        ELSE [t EXCEPT !.cpc = next,
                       !.requests = Append(@, [rq EXCEPT !.authorization = pr.a])]

\* putBan: isIpAddress(id) && id.type === IPAddressType.v4
usesRawAddress(id) == isIpAddress(id) /\ id.kind = "IPv4"

idOfIdentifier(playerId, response) == playerId.id

\* the id string of CFToolsId.of(response.cftools_id)
idOfResponse(playerId, response) == response.cftools_id

\* the operation after resolve(): its own request, to the server that
\* resolveServerApiId() names when the URL holds one
afterResolve(s, o, id, lo) ==
    LET i == OpInfo(o.name)
        t == [s EXCEPT !.cid = id]
        server == IF i.server THEN resolveServerApiId(cfg.serverApiId, overrideOf(o))
                  ELSE NoServerApiId
    IN  IF o.name = "resolve" THEN ends(t, Result("Success", id.id, "", Undefined))
        ELSE IF o.name = "deleteBan"
            THEN send(t, Request("get", "bans", NoServerApiId, id.id, FALSE, ""), "list", lo)
        ELSE IF o.name = "putBan"
            THEN send(t, Request("post", "bans", NoServerApiId, id.id, FALSE, "cftools_id"),
                      "request", lo)
        ELSE IF i.server /\ server = NoServerApiId
            THEN ends(t, Result("ServerApiIdRequired", "", "", Undefined))
        ELSE send(t, Request(i.method, i.endpoint, server, id.id, FALSE, ""), "request", lo)

\* resolve(arg): a CFToolsId is returned as it is; otherwise the lookup, and
\* when provide() throws inside the try, the catch clause of resolve()
resolveStart(s, o, lo, lo2) ==
    LET playerId == playerIdOf(resolveArg(o))
        first == send(s, Lookup(playerId, FALSE), "lookup", lo)
    IN  IF isCanonical(playerId) THEN afterResolve(s, o, playerId, lo)
        ELSE IF first.cpc = "done" /\ requestUsesAccountCreation(cfg, playerId)
            THEN send([first EXCEPT !.cpc = s.cpc, !.cres = s.cres],
                      Lookup(playerId, TRUE), "create", lo2)
        ELSE first

\* the operation from its call to its first await of the HttpClient
invoke(s, o, lo, lo2) ==
    LET i == OpInfo(o.name)
    IN  IF i.assert /\ ~assertAuthentication(cfg.auth)
            THEN ends(s, Result("AuthenticationRequired", "", "", Undefined))
        ELSE IF i.resolves = "none" THEN afterResolve(s, o, NoId, lo)
        ELSE IF o.name \in {"listBans", "deleteBan"} /\ isIpAddress(o.playerId)
            THEN afterResolve(s, o, o.playerId, lo)
        ELSE IF o.name = "putBan" /\ usesRawAddress(o.playerId)
            THEN send(s, Request("post", "bans", NoServerApiId, o.playerId.id, FALSE, "ipv4"),
                      "request", lo)
        ELSE resolveStart(s, o, lo, lo2)

\* resolve() after the answer r to its lookup
lookupAnswered(s, o, r, lo) ==
    LET playerId == playerIdOf(resolveArg(o))
        a == s.requests[Len(s.requests)].authorization
    IN  IF r.status = 200
            THEN afterResolve(s, o, CFToolsId(idOfResponse(playerId, r)), lo)
        ELSE IF requestUsesAccountCreation(cfg, playerId)
            THEN send(s, Lookup(playerId, TRUE), "create", lo)
        ELSE ends(s, Failure(fromHttpError(r, a)))

\* resolve() after the answer r to its lookup with the create flag
createAnswered(s, o, r, lo) ==
    LET playerId == playerIdOf(resolveArg(o))
        a == s.requests[Len(s.requests)].authorization
    IN  IF r.status # 200 THEN ends(s, Failure(fromHttpError(r, a)))
        ELSE IF ~accountCreated(r.notice)
            THEN ends(s, Result("AccountCreationFailed", playerId.id, r.notice, Undefined))
        ELSE afterResolve(s, o, CFToolsId(idOfResponse(playerId, r)), lo)

ambiguousNever(bans) == FALSE

\* deleteBan: bans.length > 1
ambiguous(bans) == Len(bans) > 1

\* deleteBan after the answer r to its listBans: r.entries holds the ids of
\* the bans listed; ban = bans[0]
listAnswered(s, o, r, lo) ==
    LET a == s.requests[Len(s.requests)].authorization
    IN  IF r.status # 200 THEN ends(s, Failure(fromHttpError(r, a)))
        ELSE IF ambiguous(r.entries)
            THEN ends(s, Result("AmbiguousDeleteBanRequest", "", "", Undefined))
        ELSE IF r.entries = <<>> THEN ends(s, Result("Success", "", "", Undefined))
        ELSE send(s, Request("delete", "bans", NoServerApiId, r.entries[1], FALSE, ""),
                  "request", lo)

\* the operation after the answer r to its own request
requestAnswered(s, o, r) ==
    LET a == s.requests[Len(s.requests)].authorization
    IN  IF r.status # 200 THEN ends(s, Failure(fromHttpError(r, a)))
        ELSE ends(s, Result("Success", "", "", Undefined))

ClientFailures ==
    {Answer(404, "invalid-resource", "", "", <<>>), Answer(404, "invalid-bucket", "", "", <<>>),
     Answer(403, "no-grant", "", "", <<>>)}

LookupAnswers == {Answer(200, "", c, "", <<>>) : c \in {"c1", "c2"}}

CreateAnswers ==
    {Answer(200, "", "c3", n, <<>>) :
        n \in {AccountCreated, "account creation api account created", "Failed"}}

ListAnswers ==
    {Answer(200, "", "", "", bans) :
        bans \in {<<>>, <<"ban1">>, <<"ban2">>, <<"ban1", "ban2">>}}

RequestAnswers == {Answer(200, "", "", "", <<>>)}

ClientLogins == {"token", "403"}

Invoke(o, lo, lo2) ==
    /\ cpc = "idle"
    /\ op' = o
    /\ Becomes(invoke(Here, o, lo, lo2))
    /\ UNCHANGED <<clockVars, lastOp, ops, procVars, clsVars, logVars, memVars, cacheVars, cfg, answers>>

LookupAnswer(r, lo) ==
    /\ cpc = "lookup"
    /\ answers' = Append(answers, r)
    /\ Becomes(lookupAnswered(Here, op, r, lo))
    /\ UNCHANGED <<clockVars, lastOp, ops, procVars, clsVars, logVars, memVars, cacheVars, cfg, op>>

CreateAnswer(r, lo) ==
    /\ cpc = "create"
    /\ answers' = Append(answers, r)
    /\ Becomes(createAnswered(Here, op, r, lo))
    /\ UNCHANGED <<clockVars, lastOp, ops, procVars, clsVars, logVars, memVars, cacheVars, cfg, op>>

ListAnswer(r, lo) ==
    /\ cpc = "list"
    /\ answers' = Append(answers, r)
    /\ Becomes(listAnswered(Here, op, r, lo))
    /\ UNCHANGED <<clockVars, lastOp, ops, procVars, clsVars, logVars, memVars, cacheVars, cfg, op>>

RequestAnswer(r) ==
    /\ cpc = "request"
    /\ answers' = Append(answers, r)
    /\ Becomes(requestAnswered(Here, op, r))
    /\ UNCHANGED <<clockVars, lastOp, ops, procVars, clsVars, logVars, memVars, cacheVars, cfg, op>>

\* the application and InMemoryCache
\* the keys, values and expiries an application uses the cache with
AppKeys == {<<"SOME_KEY">>, <<"OTHER_KEY">>}
AppValues == {"someValue", "anotherValue"}
AppExpiries == {Omitted, Given(-60), Given(0), Given(30)}

\* the clock moves on by ten seconds or by an hour
CacheTickSteps == {10, 3600}

CacheTick(d) ==
    /\ ticks < MaxTicks
    /\ secs' = secs + d
    /\ ticks' = ticks + 1
    /\ UNCHANGED <<now, provVars, procVars, clsVars, logVars, cliVars, entries, sets, got, cops,
                   cacheVars>>

\* cache.set(cacheKey, value, expiry) by the application
Set(cacheKey, value, expiry) ==
    /\ cops < MaxOps
    /\ cops' = cops + 1
    /\ entries' = set(entries, cacheKey, value, expiry, secs)
    /\ sets' = recorded(sets, cacheKey, value, expiry, secs, cops + 1)
    /\ UNCHANGED <<clockVars, provVars, procVars, clsVars, logVars, cliVars, secs, got, cacheVars>>

\* cache.get(cacheKey) by the application
Get(cacheKey) ==
    /\ cops < MaxOps
    /\ cops' = cops + 1
    /\ entries' = get(entries, cacheKey, secs).entries
    /\ got' = GetCall(cacheKey, get(entries, cacheKey, secs).value, secs, cops + 1)
    /\ UNCHANGED <<clockVars, provVars, procVars, clsVars, logVars, cliVars, secs, sets, cacheVars>>

\* the operations answered through cacheOrDefault, and the category of each
CachedAs ==
    [getGameServerDetails |-> "gameServerDetails", getServerInfo |-> "serverInfo",
     listGameSessions |-> "gameSessions", getLeaderboard |-> "leaderboard",
     getPlayerDetails |-> "playerDetails", getPriorityQueue |-> "priorityQueue",
     getWhitelist |-> "whitelist", listBans |-> "banlist", resolve |-> "resolve"]

cachedCategoryAlsoOfDeleteBan(name) ==
    IF name = "deleteBan" THEN "banlist"
    ELSE IF name \in DOMAIN CachedAs THEN CachedAs[name] ELSE "none"

\* the category an operation of the caching client hands to cacheOrDefault;
\* "none" for an operation that returns this.client's call
cachedCategory(name) == IF name \in DOMAIN CachedAs THEN CachedAs[name] ELSE "none"

\* the operations whose key holds this.serverApiId(request).id
keyedByServer(name) ==
    name \in {"getServerInfo", "listGameSessions", "getLeaderboard", "getPlayerDetails",
              "getPriorityQueue", "getWhitelist"}

\* ServerApiId.of('2:9'): a ServerApiId whose id string holds a colon
ColonServer == 3

\* the id string of a ServerApiId
idOfServer(server) == IF server = ColonServer THEN "2:9" ELSE ToString(server)

\* const key = `...` of each cached operation, its parts in order
keyOf(o, server) ==
    CASE o.name = "getGameServerDetails" -> <<"DayZ", "127.0.0.1", "2302">>
      [] o.name \in {"getServerInfo", "listGameSessions"} -> <<idOfServer(server)>>
      [] o.name = "getLeaderboard" -> <<idOfServer(server), "kills", "DESC", "10">>
      [] o.name \in {"getPlayerDetails", "getPriorityQueue", "getWhitelist"} ->
             <<idOfServer(server), playerIdOf(resolveArg(o)).id>>
      [] o.name = "listBans" ->
             <<"list1", IF o.playerId = NoId THEN undefined ELSE o.playerId.id>>
      [] o.name = "resolve" -> <<playerIdOf(resolveArg(o)).id>>
      [] OTHER -> <<>>

\* the template literal `${a}:${b}:...`: the parts joined by colons
joined(parts) ==
    LET upTo[i \in 1..Len(parts)] ==
            IF i = 1 THEN parts[1] ELSE upTo[i - 1] \o ":" \o parts[i]
    IN  upTo[Len(parts)]

\* const cacheKey = `${category}:${key}`, the one string the cache is asked for
cacheKeyOf(category, key) == <<joined(<<category>> \o key)>>

\* what a call of the wrapped client, or of the caching client, comes to
Returned(value) == [kind |-> "value", value |-> value]
Thrown(error) == [kind |-> "thrown", value |-> error]
Awaited == [kind |-> "pending", value |-> undefined]

returnsAlways(r) == TRUE

\* result = await orElse() returns rather than throws
returns(r) == r.kind = "value"

\* a call of the caching client: its operation, its cache key, its position
\* (orElse: awaiting the wrapped client), whether the cache answered it, its
\* outcome and the instants at which it began and ended
CachingCall(o, cacheKey, position, hit, res, at, ended) ==
    [o |-> o, cacheKey |-> cacheKey, pc |-> position, hit |-> hit, res |-> res, at |-> at,
     ended |-> ended]

\* the operations of the caching client that return this.client's call
Delegated ==
    {"putPriorityQueue", "deletePriorityQueue", "putWhitelist", "deleteWhitelist",
     "putBan", "deleteBan", "deleteBans", "deletePlayerDetails", "gameLabsAction"}

\* the calls an application makes of the caching client: of one player, by
\* the bare identifier or a request object, with or without a serverApiId
CachingOperations ==
    {o \in [name : DOMAIN CachedAs \cup Delegated, playerId : {NoId, SteamId64("s1")},
            form : {"bare", "request"}, serverApiId : Overrides] :
        /\ o.form = "bare" =>
               /\ o.name \in {"getPlayerDetails", "getPriorityQueue", "getWhitelist",
                              "resolve"}
               /\ o.serverApiId = NoServerApiId
        /\ o.serverApiId # NoServerApiId => keyedByServer(o.name)
        /\ o.playerId = NoId =>
               o.name \in {"getGameServerDetails", "getServerInfo", "listGameSessions",
                           "getLeaderboard", "listBans"}
        /\ o.playerId # NoId =>
               o.name \notin {"getGameServerDetails", "getServerInfo", "listGameSessions",
                              "getLeaderboard"}
        /\ o.name \in Delegated => o.serverApiId = NoServerApiId}

\* the operations that change something at the API
Mutating ==
    {"putPriorityQueue", "deletePriorityQueue", "putWhitelist", "deleteWhitelist",
     "putBan", "deleteBan", "deleteBans"}

\* the operations an application calls: those on one subject
Subjects ==
    {{"getPlayerDetails", "deletePlayerDetails"},
     {"getPriorityQueue", "putPriorityQueue", "deletePriorityQueue"},
     {"getWhitelist", "putWhitelist", "deleteWhitelist"},
     {"listBans", "putBan", "deleteBan", "deleteBans"},
     {"getServerInfo", "listGameSessions"},
     {"getLeaderboard", "getGameServerDetails"},
     {"resolve", "gameLabsAction"}}

Applications == {{o \in CachingOperations : o.name \in s} : s \in Subjects}

\* a caching client and the application using it: an expiry is configured
\* by an application that reads that category
CachingSetups ==
    {u \in CachingClients \X Applications :
        \A c \in Categories :
            u[1].config[c] # DefaultCacheConfig[c] =>
                \E o \in u[2] : cachedCategory(o.name) = c}

\* the value the wrapped client returns to the i-th call of the caching
\* client: a new object each time
Fresh(i) == "value" \o ToString(i)

\* what the wrapped client may answer to the i-th call, of operation o
WrappedAnswers(o, i) ==
    IF cachedCategory(o.name) = "none"
        THEN {Returned(undefined), Thrown("ResourceNotFound")}
    ELSE {Returned(Fresh(i)), Thrown("ResourceNotFound")}
         \cup (IF o.name \in {"getPriorityQueue", "getWhitelist"} THEN {Returned(null)}
               ELSE {})
         \cup (IF o.name = "listBans" THEN {Returned(undefined)} ELSE {})

AllWrappedAnswers ==
    UNION {WrappedAnswers(o, i) : o \in CachingOperations, i \in 1..MaxCalls}

\* an operation of the caching client up to its first await, the application
\* making no more than so many calls: the key, then
\* cacheOrDefault up to the call of the wrapped client, or that call at once;
\* the application awaits each call before it makes the next
CachingInvokeUpTo(o, calls) ==
    /\ Len(ccalls) < calls
    /\ o \in app
    /\ \A i \in 1..Len(ccalls) : ccalls[i].pc = "done"
    /\ LET category == cachedCategory(o.name)
           server == serverApiId(caching.defaultServerApiId, overrideOf(o))
           cacheKey == cacheKeyOf(category, keyOf(o, server))
           g == get(entries, cacheKey, secs)
       IN  IF category = "none"
               THEN /\ ccalls' = Append(ccalls,
                           CachingCall(o, <<>>, "orElse", FALSE, Awaited, secs, secs))
                    /\ wrapped' = Append(wrapped, o)
                    /\ UNCHANGED entries
           ELSE IF keyedByServer(o.name) /\ server = NoServerApiId
               THEN /\ ccalls' = Append(ccalls,
                           CachingCall(o, <<>>, "done", FALSE, Thrown("ServerApiIdRequired"),
                                       secs, secs))
                    /\ UNCHANGED <<wrapped, entries>>
           ELSE IF g.value # undefined
               THEN /\ ccalls' = Append(ccalls,
                           CachingCall(o, cacheKey, "done", TRUE, Returned(g.value),
                                       secs, secs))
                    /\ entries' = g.entries
                    /\ UNCHANGED wrapped
           ELSE /\ ccalls' = Append(ccalls,
                       CachingCall(o, cacheKey, "orElse", FALSE, Awaited, secs, secs))
                /\ wrapped' = Append(wrapped, o)
                /\ entries' = g.entries
    /\ UNCHANGED <<clockVars, provVars, procVars, clsVars, logVars, cliVars, secs, sets, got, cops,
                   caching, app>>

CachingInvoke(o) == CachingInvokeUpTo(o, MaxCalls)

\* the wrapped client answers call i with r: the operation returns it, and
\* cacheOrDefault stores it first
CachingAnswer(i, r) ==
    /\ i \in 1..Len(ccalls)
    /\ ccalls[i].pc = "orElse"
    /\ r \in WrappedAnswers(ccalls[i].o, i)
    /\ LET c == ccalls[i]
           category == cachedCategory(c.o.name)
       IN  /\ ccalls' = [ccalls EXCEPT ![i] =
                   [c EXCEPT !.pc = "done", !.res = r, !.ended = secs]]
           /\ IF category # "none" /\ returns(r)
                  THEN /\ entries' = set(entries, c.cacheKey, r.value,
                                         Given(caching.config[category]), secs)
                       /\ sets' = recorded(sets, c.cacheKey, r.value,
                                           Given(caching.config[category]), secs, cops)
                  ELSE UNCHANGED <<entries, sets>>
    /\ UNCHANGED <<clockVars, provVars, procVars, clsVars, logVars, cliVars, secs, got, cops,
                   caching, app, wrapped>>

(***************************************************************************)
(* Specifications                                                          *)
(***************************************************************************)
ExpiredTokenResponse == [status |-> 403, body |-> "object", tag |-> "expired-token"]

NoGrantResponse == [status |-> 403, body |-> "object", tag |-> "no-grant"]

\* the transport's answers to the calls: a success and one failure of each
\* way withErrorHandler can take
CallResponses ==
    {OkResponse,
     [status |-> 403, body |-> "object", tag |-> "expired-token"],
     [status |-> 403, body |-> "object", tag |-> "no-grant"],
     [status |-> 403, body |-> "invalid", tag |-> ""],
     [status |-> 404, body |-> "object", tag |-> "invalid-resource"],
     [status |-> 500, body |-> "object", tag |-> "timeout"],
     [status |-> 503, body |-> "object", tag |-> ""],
     [status |-> 0, body |-> "none", tag |-> ""]}

\* the 1st at 00h, the 23rd at 00h and 01h, the 28th at 00h and 12h
CallTimes == {0, 22 * 24, 22 * 24 + 1, 27 * 24, 27 * 24 + 12}

Verbs == {"get", "post", "delete"}

\* calls made through the client
Init == InitAt(CallTimes, {NoInput}, {DefaultClient}, {<<DefaultCaching, {}>>})

Next ==
    \/ \E c \in Calls, v \in Verbs : CallStart(c, v)
    \/ \E p \in Procs, o \in LoginOutcomes : LoginAnswer(p, o)
    \/ \E p \in Procs : ProvideResume(p)
    \/ \E c \in Calls, r \in CallResponses : Respond(c, r)

Spec == Init /\ [][Next]_vars

\* the provider used directly, constructed at any hour of any start day
InitAuth == InitAt(StartTimes, {NoInput}, {DefaultClient}, {<<DefaultCaching, {}>>})

NextAuth ==
    \/ AppProvide
    \/ AppReportExpired
    \/ \E o \in {"token", "500"} : LoginAnswer(App, o)
    \/ ProvideResume(App)
    \/ \E d \in TickSteps : Tick(d)

SpecAuth == InitAuth /\ [][NextAuth]_vars

\* the classifier applied to every failed exchange, with and without the
\* Authorization of the request
ClassifyInputs ==
    [r : FailedResponses,
     auth : {NoAuthorization, Authorization(1, 0, 24)}]

InitClassify == InitAt({0}, ClassifyInputs, {DefaultClient}, {<<DefaultCaching, {}>>})

SpecClassify == InitClassify /\ [][Classify]_vars

\* one operation of a client: on the 1st at 00h and on the 23rd at 00h
ClientTimes == {0, 22 * 24}

InitClient == InitAt(ClientTimes, {NoInput}, Clients, {<<DefaultCaching, {}>>})

NextClient ==
    \/ \E o \in Operations, lo \in ClientLogins, lo2 \in ClientLogins : Invoke(o, lo, lo2)
    \/ \E r \in LookupAnswers \cup ClientFailures, lo \in ClientLogins : LookupAnswer(r, lo)
    \/ \E r \in CreateAnswers \cup ClientFailures, lo \in ClientLogins : CreateAnswer(r, lo)
    \/ \E r \in ListAnswers \cup ClientFailures, lo \in ClientLogins : ListAnswer(r, lo)
    \/ \E r \in RequestAnswers \cup ClientFailures : RequestAnswer(r)

SpecClient == InitClient /\ [][NextClient]_vars

\* an application using InMemoryCache by itself
InitMemory == InitAt({0}, {NoInput}, {DefaultClient}, {<<DefaultCaching, {}>>})

NextMemory ==
    \/ \E d \in CacheTickSteps : CacheTick(d)
    \/ \E k \in AppKeys, v \in AppValues, e \in AppExpiries : Set(k, v, e)
    \/ \E k \in AppKeys : Get(k)

SpecMemory == InitMemory /\ [][NextMemory]_vars

\* calls of the caching client, which may overlap, against a wrapped client
InitCache == InitAt({0}, {NoInput}, {DefaultClient}, CachingSetups)

NextCache ==
    \/ \E d \in CacheTickSteps : CacheTick(d)
    \/ \E o \in CachingOperations : CachingInvoke(o)
    \/ \E i \in 1..MaxCalls, r \in AllWrappedAnswers : CachingAnswer(i, r)

SpecCache == InitCache /\ [][NextCache]_vars

\* the player-scoped reads of the caching client
PlayerReads == {"getPlayerDetails", "getPriorityQueue", "getWhitelist"}

\* the reads an application makes, by the bare identifier or a request
\* object, with or without a serverApiId
KeyOperations ==
    {o \in [name : PlayerReads, playerId : {SteamId64("s1"), SteamId64("9:s1")},
            form : {"bare", "request"}, serverApiId : {NoServerApiId, 2, ColonServer}] :
        o.form = "bare" => o.serverApiId = NoServerApiId}

\* an application reads the details of two players on three servers, or the
\* priority queue and the whitelist of one player on two
KeyApplications ==
    {{o \in KeyOperations : o.name = "getPlayerDetails"},
     {o \in KeyOperations :
         /\ o.name \in {"getPriorityQueue", "getWhitelist"}
         /\ o.playerId = SteamId64("s1")
         /\ o.serverApiId # ColonServer}}

KeySetups ==
    {DefaultCaching, CachingCFToolsClient(DefaultCacheConfig, 2)} \X KeyApplications

InitKeys == InitAt({0}, {NoInput}, {DefaultClient}, KeySetups)

NextKeys ==
    \/ \E d \in CacheTickSteps : CacheTick(d)
    \/ \E o \in KeyOperations : CachingInvoke(o)
    \/ \E i \in 1..MaxCalls, r \in AllWrappedAnswers : CachingAnswer(i, r)

SpecKeys == InitKeys /\ [][NextKeys]_vars

\* an application reads an item of one player and changes it, by request
\* objects without a serverApiId
FrameOperations ==
    {o \in CachingOperations :
        /\ o.name \in Mutating \cup {"getPriorityQueue", "getWhitelist", "listBans"}
        /\ o.name # "deleteBans"
        /\ o.playerId = SteamId64("s1")
        /\ o.form = "request"
        /\ o.serverApiId = NoServerApiId}

FrameSetups ==
    {DefaultCaching}
        \X {{o \in FrameOperations : o.name \in s} :
                s \in {{"getPriorityQueue", "putPriorityQueue", "deletePriorityQueue"},
                       {"getWhitelist", "putWhitelist", "deleteWhitelist"},
                       {"listBans", "putBan", "deleteBan"}}}

FrameAnswers ==
    UNION {WrappedAnswers(o, i) : o \in FrameOperations, i \in 1..FrameCalls}

InitFrame == InitAt({0}, {NoInput}, {DefaultClient}, FrameSetups)

NextFrame ==
    \/ \E d \in CacheTickSteps : CacheTick(d)
    \/ \E o \in FrameOperations : CachingInvokeUpTo(o, FrameCalls)
    \/ \E i \in 1..FrameCalls, r \in FrameAnswers : CachingAnswer(i, r)

SpecFrame == InitFrame /\ [][NextFrame]_vars

\* the exchanges of a run: the login exchange, a read and a write of the
\* API, by a client with or without an enterprise access token
Exchanges == [kind : {"login", "get", "post"}, enterprise : BOOLEAN]

\* the headers the SDK and got's defaults give a request
headersOf(e, s) ==
    [user_agent |-> "cftools-sdk"]
        @@ (IF e.kind = "login" THEN <<>>
            ELSE [Authorization |-> "Bearer " \o s.token])
        @@ (IF e.enterprise THEN [X_Enterprise_Access_Token |-> s.enterpriseToken]
            ELSE <<>>)

\* the request of exchange e in a run whose secrets are s: fetchToken()'s
\* post of {application_id, secret}, or a request of the API
RequestOf(e, s) ==
    CASE e.kind = "login" ->
             Options("POST", "/v1/auth/register", headersOf(e, s),
                     Body("string", "{application_id:app,secret:" \o s.secret \o "}"))
      [] e.kind = "get" ->
             Options("GET", "/v1/server/1/info", headersOf(e, s), NoBody)
      [] e.kind = "post" ->
             Options("POST", "/v1/banlist/list1/bans", headersOf(e, s),
                     Body("string", "{identifier:s1}"))

AnswerStatuses == {200, 403, 500}

\* the response to exchange e with the given status: {token} for a login
\* that succeeds
ResponseOf(e, s, statusCode) ==
    LET o == RequestOf(e, s)
        rawBody == IF statusCode >= 400 THEN "{error:failed}"
                   ELSE IF e.kind = "login" THEN "{token:" \o s.token \o "}"
                   ELSE "{status:true}"
    IN  Response(o.method, o.pathname, statusCode, rawBody)

\* console.log(line) in both runs
writes(line1, line2) ==
    /\ options.enableDebugLogging
    /\ Len(console[1]) < MaxLines
    /\ console' = [r \in Runs |->
                      Append(console[r], IF r = 1 THEN line1 ELSE line2)]
    /\ UNCHANGED <<clockVars, provVars, procVars, clsVars, cliVars, memVars, cacheVars,
                   options, secrets>>

\* got runs hooks.beforeRequest for the request of exchange e
BeforeRequest(e) ==
    writes(beforeRequest(RequestOf(e, secrets[1]), options),
           beforeRequest(RequestOf(e, secrets[2]), options))

\* got runs hooks.afterResponse for the response to exchange e
AfterResponse(e, statusCode) ==
    writes(afterResponse(ResponseOf(e, secrets[1], statusCode), options),
           afterResponse(ResponseOf(e, secrets[2], statusCode), options))

\* got runs hooks.beforeError: exchange e failed with a response that is not
\* ok, or with none (statusCode 0)
BeforeError(e, statusCode) ==
    LET code == IF statusCode = 0 THEN "ETIMEDOUT" ELSE "ERR_NON_2XX_3XX_RESPONSE"
    IN  writes(beforeError(ResponseOf(e, secrets[1], statusCode), code, options),
               beforeError(ResponseOf(e, secrets[2], statusCode), code, options))

\* the secrets of the first run, and those of a second run that keeps or
\* replaces each of them
OneRun == Secrets("secret1", "token1", "enterprise1")

OtherRuns ==
    {Secrets(a, b, c) :
        a \in {"secret1", "secret2"}, b \in {"token1", "token2"},
        c \in {"enterprise1", "enterprise2"}}

Loggings ==
    {<<HttpClientOptions(d, b), [r \in Runs |-> IF r = 1 THEN OneRun ELSE s]>> :
        d \in BOOLEAN, b \in BOOLEAN, s \in OtherRuns}

InitLog == InitWith({0}, {NoInput}, {DefaultClient}, {<<DefaultCaching, {}>>}, Loggings)

NextLog ==
    \/ \E e \in Exchanges : BeforeRequest(e)
    \/ \E e \in Exchanges, statusCode \in AnswerStatuses : AfterResponse(e, statusCode)
    \/ \E e \in Exchanges, statusCode \in {0, 403, 500} : BeforeError(e, statusCode)

SpecLog == InitLog /\ [][NextLog]_vars

\* new GotHttpClient(client): no provider, and get / post / delete called
\* without options, so that the context carries no authorization
DirectCall(c, v) ==
    /\ pc[c] = "idle"
    /\ verb' = [verb EXCEPT ![c] = v]
    /\ authz' = [authz EXCEPT ![c] = <<NoAuthorization>>]
    /\ Execute(c, 1, populateContext(headers[c], NoAuthorization, NoContext))
    /\ UNCHANGED <<clockVars, provVars, fetched, resp, lresp, result, pv, clsVars, logVars,
                   memVars, cacheVars, cliVars>>

\* withErrorHandler after its await when this.auth is undefined:
\* this.auth?.reportExpired() and this.auth?.provide() do nothing and the
\* authorization of the re-execution is undefined
DirectRespond(c, r) ==
    /\ pc[c] = "exec"
    /\ resp' = [resp EXCEPT ![c] = Append(@, r)]
    /\ LET n == attempt[c]
           err == fromHttpError(r, authz[c][n])
       IN  IF r = OkResponse
           THEN /\ pc' = [pc EXCEPT ![c] = "done"]
                /\ result' = [result EXCEPT ![c] =
                        Outcome("Success", NoAuthorization, Undefined, n)]
                /\ UNCHANGED <<log, attempt, headers, sent, authz>>
           ELSE IF retryAllowed(n) /\ isTokenExpired(err)
           THEN /\ authz' = [authz EXCEPT ![c] = Append(@, NoAuthorization)]
                /\ Execute(c, n + 1,
                           populateContext(headers[c], NoAuthorization,
                               contextOverrideOf(verb[c], Context(NoAuthorization))))
                /\ UNCHANGED result
           ELSE /\ pc' = [pc EXCEPT ![c] = "done"]
                /\ result' = [result EXCEPT ![c] = Raised(err, n)]
                /\ UNCHANGED <<log, attempt, headers, sent, authz>>
    /\ UNCHANGED <<clockVars, provVars, verb, fetched, lresp, pv, clsVars, logVars, memVars,
                   cacheVars, cliVars>>

\* calls made through a GotHttpClient that has no provider
InitDirect == InitAt(CallTimes, {NoInput}, {DefaultClient}, {<<DefaultCaching, {}>>})

NextDirect ==
    \/ \E c \in Calls, v \in Verbs : DirectCall(c, v)
    \/ \E c \in Calls, r \in CallResponses : DirectRespond(c, r)

SpecDirect == InitDirect /\ [][NextDirect]_vars

\* two operations of one client at a time, on the one provider
Racers == {App, 1}

RaceResponses == {OkResponse, ExpiredTokenResponse, NoGrantResponse}

InitRace == InitAt(CallTimes, {NoInput}, {DefaultClient}, {<<DefaultCaching, {}>>})

NextRace ==
    \/ \E p \in Racers, v \in Verbs : CallStart(p, v)
    \/ \E p \in Racers, o \in LoginOutcomes : LoginAnswer(p, o)
    \/ \E p \in Racers : ProvideResume(p)
    \/ \E p \in Racers, r \in RaceResponses : Respond(p, r)

SpecRace == InitRace /\ [][NextRace]_vars

\* every exchange is answered in the end and every continuation is run: the
\* transport answers an execution in flight, the login endpoint answers a
\* login exchange, and provide() resumes after fetchToken()
Answering ==
    /\ \A c \in Calls : WF_vars(\E r \in CallResponses : Respond(c, r))
    /\ \A p \in Procs : WF_vars(\E o \in LoginOutcomes : LoginAnswer(p, o))
    /\ \A p \in Procs : WF_vars(ProvideResume(p))

\* calls started on the 1st at 00h and on the 23rd at 00h
LiveTimes == {0, 22 * 24}

InitLive == InitAt(LiveTimes, {NoInput}, {DefaultClient}, {<<DefaultCaching, {}>>})

SpecLive == InitLive /\ [][Next]_vars /\ Answering

(***************************************************************************)
(* Claims about the resilient executor (GotHttpClient.withErrorHandler)    *)
(***************************************************************************)
Finished(c) == pc[c] = "done"

Reports(c) == Cardinality({i \in 1..Len(log[c]) : log[c][i] = "reportExpired"})

\* C1: a call whose first execution fails with 403/expired-token reports the
\* expiry once and then calls provide() once; unless that login exchange fails
\* it executes the request exactly once more, and when the re-execution
\* succeeds the call returns the re-execution's response.
C1_RetryOnceAfterExpiry ==
    \A c \in Calls :
        (Finished(c) /\ Len(resp[c]) >= 1 /\ resp[c][1] = ExpiredTokenResponse) =>
            \/ /\ log[c] = <<"exec", "reportExpired", "provide">>
               /\ Len(resp[c]) = 1
               /\ Len(lresp[c]) >= 1
               /\ lresp[c][Len(lresp[c])] # "token"
            \/ /\ log[c] = <<"exec", "reportExpired", "provide", "exec">>
               /\ Len(resp[c]) = 2
               /\ Len(sent[c]) = 2
               /\ attempt[c] = 2
               /\ resp[c][2] = OkResponse =>
                      result[c] = Outcome("Success", NoAuthorization, Undefined, 2)

C1_Witness ==
    \E c \in Calls :
        /\ Finished(c)
        /\ resp[c] = <<ExpiredTokenResponse, OkResponse>>
        /\ result[c].kind = "Success"
        /\ log[c] = <<"exec", "reportExpired", "provide", "exec">>

\* C2: a call executes its request at most twice and reports expiry at most
\* once; when both executions fail with expired-token the call raises the
\* TokenExpired built from the second failure, after exactly two executions.
C2_AtMostTwoExecutions ==
    \A c \in Calls :
        /\ attempt[c] <= 2
        /\ Len(sent[c]) = attempt[c]
        /\ Len(resp[c]) <= attempt[c]
        /\ Reports(c) <= 1
        /\ (Finished(c) /\ Len(resp[c]) = 2) => result[c].att = 2
        /\ (Finished(c) /\ resp[c] = <<ExpiredTokenResponse, ExpiredTokenResponse>>) =>
               /\ result[c] = Outcome("TokenExpired", authz[c][2], Undefined, 2)
               /\ log[c] = <<"exec", "reportExpired", "provide", "exec">>
               /\ Len(lresp[c]) <= 2

C2_Witness ==
    \E c \in Calls :
        /\ Finished(c)
        /\ resp[c] = <<ExpiredTokenResponse, ExpiredTokenResponse>>
        /\ result[c].kind = "TokenExpired"

\* C3: when the classifier makes anything but a TokenExpired of the first
\* failure (a typed error, the raw failure, or an exception of its own), the
\* call ends with exactly that after one execution, the executor has called
\* neither reportExpired() nor provide(), and the step that ends the call
\* leaves the provider and the number of login exchanges as they were.
C3_OtherFailuresNotRetried ==
    /\ [](\A c \in Calls :
            (Len(resp[c]) >= 1 /\ resp[c][1] # OkResponse
                /\ fromHttpError(resp[c][1], authz[c][1]).kind # "TokenExpired") =>
                /\ Finished(c)
                /\ result[c] = Raised(fromHttpError(resp[c][1], authz[c][1]), 1)
                /\ attempt[c] = 1
                /\ Len(resp[c]) = 1
                /\ log[c] = <<"exec">>)
    /\ [][\A c \in Calls :
            (pc[c] = "exec" /\ attempt[c] = 1 /\ pc'[c] = "done"
                /\ result'[c].kind # "Success") =>
                (provider' = provider /\ logins' = logins)]_vars

C3_Witness ==
    \E c \in Calls :
        /\ Finished(c)
        /\ resp[c] = <<NoGrantResponse>>
        /\ result[c].kind = "GrantRequired"
        /\ provider.token # Undefined

\* C4: the re-execution after a TokenExpired failure carries the credential
\* that the provide() after reportExpired() returned, for get, post and delete.
C4_RetryCarriesRefreshedCredential ==
    \A c \in Calls :
        (attempt[c] = 2 /\ Len(authz[c]) = 2) => sent[c][2] = asHeader(authz[c][2])

\* C9: a login exchange answered 403 or 500 ends the call with
\* InvalidCredentials, any other failed login exchange ends it with that
\* failure unchanged, and a call ends with InvalidCredentials in no other way.
C9_InvalidCredentialsOnlyFromLogin ==
    \A p \in Procs :
        LET n == Len(lresp[p])
        IN  /\ (n >= 1 /\ lresp[p][n] \in {"403", "500"}) =>
                   (Finished(p) /\ result[p].kind = "InvalidCredentials" /\ result[p].att = 0)
            /\ (n >= 1 /\ lresp[p][n] \notin {"403", "500", "token"}) =>
                   (Finished(p) /\ result[p].kind = lresp[p][n] /\ result[p].att = 0)
            /\ result[p].kind = "InvalidCredentials" =>
                   (n >= 1 /\ lresp[p][n] \in {"403", "500"})

C9_Witness ==
    \E c \in Calls :
        /\ Finished(c)
        /\ result[c].kind = "InvalidCredentials"
        /\ lresp[c] = <<"token", "500">>
        /\ resp[c] = <<ExpiredTokenResponse>>

(***************************************************************************)
(* Claims about CFToolsAuthorizationProvider                               *)
(***************************************************************************)
\* the slot a provide() found held a token and an expiry
FoundCached(p) ==
    pv[p].began /\ pv[p].cached.token # Undefined /\ pv[p].cached.expired # Undefined

\* C5: a provide() that finds a cached credential whose expiry is later than
\* the current time performs no login exchange.
C5_ValidCredentialIsReused ==
    \A p \in Procs :
        (FoundCached(p) /\ pv[p].cached.expired > pv[p].at) => ~pv[p].login

\* C6: a provide() that finds a cached credential whose expiry is earlier
\* than the current time performs a login exchange.
C6_ExpiredCredentialIsRefreshed ==
    \A p \in Procs :
        (FoundCached(p) /\ pv[p].cached.expired < pv[p].at) => pv[p].login

\* C7: the provide() that follows reportExpired() performs a login exchange
\* and, when the exchange succeeds, returns the token that exchange issued;
\* reportExpired() leaves the slot without token and expiry, and a second
\* reportExpired() in a row changes nothing.
C7_ReportExpiredForcesLogin ==
    /\ [](\A p \in Procs :
            (pv[p].began /\ pv[p].prev = "reportExpired") =>
                /\ pv[p].login
                /\ (Finished(p) /\ verb[p] = "provide" /\ result[p].kind = "Success") =>
                       /\ result[p].info.token = pv[p].issuedBefore + 1
                       /\ result[p].info.token # pv[p].cached.token
                       /\ Len(lresp[p]) = 1)
    /\ [][(ops' = ops + 1 /\ lastOp' = "reportExpired") =>
            /\ provider'.token = Undefined
            /\ provider'.expired = Undefined
            /\ lastOp = "reportExpired" => provider' = provider]_vars

C7_Witness ==
    /\ Finished(App)
    /\ pv[App].prev = "reportExpired"
    /\ result[App].kind = "Success"
    /\ result[App].info.token = 1
    /\ provider.token = 1
    /\ ops = 3

\* C8: every Authorization that provide() returns expires no earlier than it
\* was created.
C8_ExpiryNotBeforeCreation ==
    \A p \in Procs :
        \A i \in 1..Len(authz[p]) : authz[p][i].expiresAt >= authz[p][i].created

(***************************************************************************)
(* Claims about the error classifier (fromHttpError)                       *)
(***************************************************************************)
ErrorTable ==
    {<<404, "invalid-bucket", "ResourceNotConfigured">>,
     <<404, "invalid-resource", "ResourceNotFound">>,
     <<429, "rate-limited", "RequestLimitExceeded">>,
     <<400, "duplicate", "DuplicateResourceCreation">>,
     <<403, "no-grant", "GrantRequired">>,
     <<403, "expired-token", "TokenExpired">>,
     <<500, "unexpected-error", "UnknownError">>,
     <<500, "timeout", "TimeoutError">>,
     <<500, "system-unavailable", "CFToolsUnavailable">>}

\* C10: for a failed exchange whose status and error tag are a pair of the
\* error table, fromHttpError returns the error of the kind listed.
C10_TableClassification ==
    \A e \in ErrorTable :
        (clsOut # NotClassified /\ clsIn.r.body = "object"
            /\ clsIn.r.status = e[1] /\ clsIn.r.tag = e[2]) => clsOut.kind = e[3]

\* the (status, tag) pairs of the error table; a 404 is in the table with any
\* tag (invalid-bucket or generic)
InErrorTable(status, tag) ==
    \/ status = 404
    \/ \E e \in ErrorTable : e[1] = status /\ e[2] = tag

RawFailure(r) == Err("HTTPError", NoAuthorization, r.status)

TypedKinds == {e[3] : e \in ErrorTable}

\* C11: for a failed exchange with a response whose body is a JSON object and
\* whose status and error tag are no pair of the error table, fromHttpError
\* returns the raw transport failure and none of the typed errors.
C11_UnmatchedPairsPassThrough ==
    (clsOut # NotClassified /\ clsIn.r.body = "object"
        /\ ~InErrorTable(clsIn.r.status, clsIn.r.tag)) =>
        (clsOut = RawFailure(clsIn.r) /\ clsOut.kind \notin TypedKinds)

\* C12: for a failed exchange whose body is no JSON, whatever the status,
\* fromHttpError returns the raw transport failure: it neither throws the
\* SyntaxError of JSON.parse nor returns a typed error.
C12_UnparseableBodyPassesThrough ==
    (clsOut # NotClassified /\ clsIn.r.body = "invalid") =>
        clsOut = RawFailure(clsIn.r)

(***************************************************************************)
(* Claims about GotCFToolsClient                                           *)
(***************************************************************************)
LookupEndpoint == "v1/users/lookup"

\* the calls of the lookup endpoint the operation has made
LookupCalls == {i \in 1..Len(requests) : requests[i].endpoint = LookupEndpoint}

CreateCalls == {i \in LookupCalls : requests[i].create}

Invoked == op # NoOperation

\* C13: resolve() of a CFToolsId, bare or wrapped in a request object, returns
\* that identifier and calls neither the HttpClient nor the login endpoint;
\* no operation looks up an identifier that already is a CFToolsId.
C13_CanonicalIdResolvesWithoutCall ==
    /\ (op.name = "resolve" /\ op.playerId.kind = "CFToolsId") =>
           /\ cpc = "done"
           /\ cres = Result("Success", op.playerId.id, "", Undefined)
           /\ cid = op.playerId
           /\ requests = <<>>
           /\ logins = 0
           /\ issued = 0
           /\ provider \in Constructed(now)
    /\ (Invoked /\ op.playerId.kind = "CFToolsId") => LookupCalls = {}

C13_Witness ==
    /\ op = Operation("resolve", CFToolsId("c0"), "request", NoServerApiId)
    /\ cfg.auth = "cftools"
    /\ cpc = "done"
    /\ cres.id = "c0"
    /\ requests = <<>>

NonCanonicalKinds == {"SteamId64", "BattlEyeGUID", "BohemiaInteractiveId"}

\* the operation's first call of the HttpClient was the plain lookup of its
\* identifier, and it has been answered
LookupAnswered ==
    /\ Len(answers) >= 1
    /\ requests[1].endpoint = LookupEndpoint
    /\ ~requests[1].create

\* C14: when the lookup of a SteamId64, BattlEyeGUID or BohemiaInteractiveId
\* succeeds, the operation has called the lookup endpoint exactly once, with
\* the identifier's id string and no create flag, and resolve() returns the
\* CFToolsId of the response's cftools_id.
C14_LookupOnceReturnsCanonicalId ==
    (LookupAnswered /\ op.playerId.kind \in NonCanonicalKinds /\ answers[1].status = 200) =>
        /\ Cardinality(LookupCalls) = 1
        /\ requests[1].method = "get"
        /\ requests[1].identifier = op.playerId.id
        /\ cid = CFToolsId(answers[1].cftools_id)
        /\ op.name = "resolve" =>
               /\ cpc = "done"
               /\ cres = Result("Success", answers[1].cftools_id, "", Undefined)
               /\ Len(requests) = 1

C14_Witness ==
    /\ op = Operation("resolve", GenericId("BattlEyeGUID", "g1"), "bare", NoServerApiId)
    /\ cpc = "done"
    /\ Len(requests) = 1
    /\ answers[1].cftools_id = "c2"
    /\ cres = Result("Success", "c2", "", Undefined)

\* the answer 404 of an endpoint that knows no such resource
NotFoundAnswer == Answer(404, "invalid-resource", "", "", <<>>)

\* account-creation mode is enabled, an enterprise token is configured and
\* the operation's identifier is a SteamId64
CreationApplies ==
    cfg.hasAccountCreationAccess /\ cfg.enterpriseToken /\ op.playerId.kind = "SteamId64"

C17_NoCreationWithoutMode ==
    /\ (LookupAnswered /\ ~CreationApplies /\ answers[1].status # 200) =>
           /\ cpc = "done"
           /\ cres = Failure(fromHttpError(answers[1], requests[1].authorization))
           /\ Len(requests) = 1
    /\ ~CreationApplies => CreateCalls = {}

C17_Witness ==
    /\ op.name = "resolve"
    /\ op.playerId = SteamId64("s1")
    /\ cfg = GotCFToolsClient(NoServerApiId, FALSE, TRUE, "cftools")
    /\ answers = <<Answer(403, "no-grant", "", "", <<>>)>>
    /\ cres.kind = "GrantRequired"
    /\ Len(requests) = 1

BanOperations == {"listBans", "putBan", "deleteBan"}

\* C18: listBans, putBan and deleteBan by player with an IP address, v4 or
\* v6, never call the lookup endpoint; their first call carries the address
\* string itself, and putBan sends it with a format that names an IP address,
\* not with the format cftools_id.
C18_IpAddressIsNeverResolved ==
    (op.name \in BanOperations /\ op.playerId.kind \in {"IPv4", "IPv6"}) =>
        /\ LookupCalls = {}
        /\ Len(requests) >= 1 =>
               /\ requests[1].endpoint = "bans"
               /\ requests[1].identifier = op.playerId.id
               /\ op.name = "putBan" => requests[1].format \notin {"cftools_id", ""}

DocumentedAsAuthenticated ==
    {"getPlayerDetails", "getLeaderboard", "getPriorityQueue", "putPriorityQueue",
     "deletePriorityQueue", "getWhitelist", "putWhitelist", "deleteWhitelist"}

\* C19: on a client without credentials (built by the builder without
\* withCredentials, or constructed without a provider) every operation
\* documented as requiring an authenticated client ends with
\* AuthenticationRequired, and no call of the HttpClient is made for it.
C19_AnonymousClientIsRejected ==
    (cfg.auth \in {"none", "noop"} /\ op.name \in DocumentedAsAuthenticated) =>
        /\ cpc = "done"
        /\ cres.kind = "AuthenticationRequired"
        /\ requests = <<>>

ServerEndpoints == {"player", "leaderboard", "queuepriority", "whitelist", "info",
                    "GSM/list", "GameLabs/action"}

\* the calls of an endpoint under v1/server/{id} or v2/server/{id}
ServerCalls == {i \in 1..Len(requests) : requests[i].endpoint \in ServerEndpoints}

NeedsServer == op.name \in {n \in OpNames : OpInfo(n).server}

ListCalls ==
    {k \in 1..Len(requests) :
        requests[k].endpoint = "bans" /\ requests[k].method = "get"}

DeleteCalls ==
    {k \in 1..Len(requests) :
        requests[k].endpoint = "bans" /\ requests[k].method = "delete"}

ExpiryInstant(s) ==
    s.at + (IF s.expiry = Omitted THEN DefaultExpiry ELSE s.expiry[1])

\* what get(k) is to return after the latest set() of k, at instant t
Expected(k, t) ==
    IF k \notin DOMAIN sets THEN undefined
    ELSE IF t < ExpiryInstant(sets[k]) THEN sets[k].value
    ELSE undefined

\* C25: after any sequence of set and get calls, a get(k) returns the value
\* of the latest set(k, v, expiry) made before it when the instant of that
\* set plus its expiry (the default when none was given) is still ahead, and
\* undefined when k was never set or that instant has been reached.
C25_GetReturnsLatestUnexpiredSet ==
    (got # NoGet /\ (got.cacheKey \in DOMAIN sets => sets[got.cacheKey].n < got.n)) =>
        got.value = Expected(got.cacheKey, got.at)

\* the calls before call j that were handed the same cache key, reached the
\* wrapped client and returned a result
ReturnedBefore(j) ==
    {i \in 1..(j - 1) :
        /\ ccalls[i].cacheKey = ccalls[j].cacheKey
        /\ ~ccalls[i].hit
        /\ ccalls[i].res.kind = "value"
        /\ ccalls[i].res.value # undefined}

Latest(S) == CHOOSE i \in S : \A k \in S : k <= i

\* the calls of the cached operations that came to cacheOrDefault
Keyed == {j \in 1..Len(ccalls) : ccalls[j].cacheKey # <<>>}

\* C22: a call of a cached read operation made after a call with the same
\* cache key returned a result from the wrapped client reaches the wrapped
\* client exactly when the expiry configured for the category has elapsed
\* since that result was returned; before that it returns that result.
C22_ServedUntilConfiguredExpiry ==
    \A j \in Keyed :
        ReturnedBefore(j) # {} =>
            LET i == Latest(ReturnedBefore(j))
                expiry == caching.config[cachedCategory(ccalls[j].o.name)]
                elapsed == ccalls[j].at >= ccalls[i].ended + expiry
            IN  /\ ccalls[j].hit = ~elapsed
                /\ ~elapsed => ccalls[j].res = Returned(ccalls[i].res.value)

MutatingCalls == {j \in 1..Len(ccalls) : ccalls[j].o.name \in Mutating}

WrappedMutations == {k \in 1..Len(wrapped) : wrapped[k].name \in Mutating}

\* C23: no call of a mutating operation comes to the cache, whatever the
\* cache holds: each one is handed to the wrapped client with the same
\* arguments, so that of every mutating operation as many calls reached the
\* wrapped client as were made of the caching client.
C23_MutationsAlwaysReachWrappedClient ==
    /\ \A j \in MutatingCalls : ~ccalls[j].hit /\ ccalls[j].cacheKey = <<>>
    /\ Cardinality(MutatingCalls) = Cardinality(WrappedMutations)
    /\ \A o \in CachingOperations :
           o.name \in Mutating =>
               Cardinality({j \in MutatingCalls : ccalls[j].o = o})
                   = Cardinality({k \in WrappedMutations : wrapped[k] = o})

\* deleteBan of a player twice, with identical arguments
C23_Witness ==
    /\ Len(ccalls) = 2
    /\ ccalls[1].o.name = "deleteBan"
    /\ ccalls[2].o = ccalls[1].o
    /\ ccalls[2].pc = "done"
    /\ Len(wrapped) = 2

\* the calls that came to the wrapped client and ended with its failure
FailedCalls ==
    {i \in Keyed :
        ccalls[i].pc = "done" /\ ~ccalls[i].hit /\ ccalls[i].res.kind = "thrown"}

\* the calls before call i, with the same cache key, that the wrapped client
\* answered with a return
StoredBefore(i) ==
    {h \in 1..(i - 1) :
        /\ ccalls[h].cacheKey = ccalls[i].cacheKey
        /\ ~ccalls[h].hit
        /\ ccalls[h].res.kind = "value"}

SameKeyAfter(i) == {j \in Keyed : j > i /\ ccalls[j].cacheKey = ccalls[i].cacheKey}

Earliest(S) == CHOOSE i \in S : \A k \in S : i <= k

\* C24: a call whose wrapped call fails ends with that failure and stores
\* nothing: until the next call with the same key, the latest set() of the key
\* is still the one of the last call before it that was answered with a
\* return, or there is none and the cache has no entry for the key; and the
\* next call with the same key reaches the wrapped client.
C24_FailuresAreNotCached ==
    \A i \in FailedCalls :
        LET key == ccalls[i].cacheKey
        IN  /\ ccalls[i].res = Thrown("ResourceNotFound")
            /\ SameKeyAfter(i) = {} =>
                   IF StoredBefore(i) = {}
                   THEN key \notin DOMAIN sets /\ key \notin DOMAIN entries
                   ELSE LET h == Latest(StoredBefore(i))
                        IN  /\ sets[key].value = ccalls[h].res.value
                            /\ sets[key].at = ccalls[h].ended
            /\ SameKeyAfter(i) # {} =>
                   ~ccalls[Earliest(SameKeyAfter(i))].hit

\* getPlayerDetails fails, and the same call made again reaches the wrapped
\* client and returns its result
C24_Witness ==
    /\ Len(ccalls) = 2
    /\ ccalls[1].o.name = "getPlayerDetails"
    /\ ccalls[1].res = Thrown("ResourceNotFound")
    /\ ccalls[2].o = ccalls[1].o
    /\ ccalls[2].res = Returned(Fresh(2))
    /\ ~ccalls[2].hit
    /\ Len(wrapped) = 2

\* the first call of the provider is a provide(), made at the instant of
\* construction on a slot that holds the token of CFTOOLS_API_TOKEN
FirstProvideWithEnvToken ==
    /\ pv[App].began
    /\ pv[App].prev = "none"
    /\ pv[App].cached.token = EnvToken
    /\ pv[App].cached.created = pv[App].at
    /\ ops = 1

\* C26: on a provider constructed while CFTOOLS_API_TOKEN is set, the first
\* provide() performs no login exchange and returns the token of
\* CFTOOLS_API_TOKEN.
C26_EnvTokenBypassesLogin ==
    FirstProvideWithEnvToken =>
        /\ ~pv[App].login
        /\ logins = 0
        /\ pc[App] = "done"
        /\ result[App].kind = "Success"
        /\ result[App].info.token = EnvToken

\* the slot holds a credential that a login exchange issued
HoldsIssued ==
    provider.token # Undefined /\ provider.token # EnvToken /\ provider.expired # Undefined

\* C29: the expiry of a credential issued by a login exchange is the instant
\* of its issuance plus the token lifetime of 23 hours, on whatever day and
\* at whatever hour the token is issued.
C29_ExpiryIsIssuancePlusLifetime ==
    HoldsIssued => provider.expired = provider.created + TokenLifetime

\* the executions of call c that were sent and are not answered yet
InFlight(c) == Len(sent[c]) - Len(resp[c])

\* C28: a call never has two executions in flight, and has one exactly while
\* it awaits the transport; a second execution exists only when the first has
\* been answered with a failure that the classifier made a TokenExpired of
\* and the provide() after reportExpired() has returned its Authorization;
\* while that provide() awaits the login exchange nothing is in flight.
C28_RetryOnlyAfterRefresh ==
    \A c \in Calls :
        /\ InFlight(c) \in {0, 1}
        /\ (InFlight(c) = 1) = (pc[c] = "exec")
        /\ Len(sent[c]) >= 2 =>
               /\ Len(resp[c]) >= 1
               /\ resp[c][1] # OkResponse
               /\ fromHttpError(resp[c][1], authz[c][1]).kind = "TokenExpired"
               /\ Len(authz[c]) >= 2
               /\ SubSeq(log[c], 1, 4) = <<"exec", "reportExpired", "provide", "exec">>
        /\ (Len(log[c]) >= 3 /\ pc[c] \in {"login", "resume"}) =>
               /\ log[c] = <<"exec", "reportExpired", "provide">>
               /\ Len(sent[c]) = 1
               /\ Len(resp[c]) = 1

\* the re-execution is in flight, sent after the login exchange of the
\* refreshing provide() was answered
C28_Witness ==
    \E c \in Calls :
        /\ pc[c] = "exec"
        /\ Len(sent[c]) = 2
        /\ Len(resp[c]) = 1
        /\ Len(authz[c]) = 2
        /\ Len(lresp[c]) >= 1
        /\ pv[c].prev = "reportExpired"
        /\ pv[c].login

(***************************************************************************)
(* Claims about a GotHttpClient without a provider                         *)
(***************************************************************************)
\* C30: on a client without a provider, a call answered with
\* 403/expired-token ends with a TokenExpired error, and no login exchange
\* is made.
C30_ExpiryWithoutProviderSurfaces ==
    \A c \in Calls :
        /\ logins = 0
        /\ lresp[c] = <<>>
        /\ (Finished(c) /\ Len(resp[c]) >= 1 /\ resp[c][1] = ExpiredTokenResponse) =>
               result[c].kind = "TokenExpired"

(***************************************************************************)
(* Claims about operations sharing the provider                            *)
(***************************************************************************)
\* the Authorizations the provide() calls of operation p have returned
Received(p) == {authz[p][i] : i \in 1..Len(authz[p])}

\* the login exchanges operation p has made
LoginsOf(p) == Len(lresp[p]) + (IF pc[p] = "login" THEN 1 ELSE 0)

\* every login exchange so far was answered with a token
AllLoginsIssued ==
    \A p \in Racers : \A i \in 1..Len(lresp[p]) : lresp[p][i] = "token"

\* C27: when two operations use the provider at once, each makes at most
\* one login exchange per provide() it calls (two at most), every
\* Authorization a provide() returns has a token that the constructor or a
\* login exchange stored and has a defined expiry, and once both operations
\* have ended with every login answered by a token the slot holds an issued
\* token with its expiry.
C27_RacingRefreshOnlyAddsLogins ==
    /\ \A p \in Racers :
           /\ LoginsOf(p) <= 2
           /\ \A a \in Received(p) :
                  /\ a.token \in (1..issued) \cup {EnvToken}
                  /\ a.expiresAt # Undefined
    /\ ((\A p \in Racers : pc[p] = "done") /\ issued >= 1 /\ AllLoginsIssued) =>
           /\ provider.token \in 1..issued
           /\ provider.expired # Undefined

(***************************************************************************)
(* Claims about the errors and the end of a call                           *)
(***************************************************************************)
\* C32: a call that ends with TokenExpired carries in the error the
\* credential whose header was sent with the execution that failed; after
\* two expired-token failures that is the credential the refreshing
\* provide() returned, sent with the re-execution.
C32_ExpiredErrorCarriesSentCredential ==
    \A c \in Calls :
        (Finished(c) /\ result[c].kind = "TokenExpired") =>
            /\ result[c].att >= 1
            /\ asHeader(result[c].info) = sent[c][result[c].att]
            /\ resp[c] = <<ExpiredTokenResponse, ExpiredTokenResponse>> =>
                   /\ result[c].info = authz[c][2]
                   /\ sent[c][2] = asHeader(authz[c][2])

\* call c ended when the login exchange of its refreshing provide() failed
RefreshLoginFailed(c) ==
    /\ Finished(c)
    /\ log[c] = <<"exec", "reportExpired", "provide">>
    /\ Len(lresp[c]) >= 1
    /\ lresp[c][Len(lresp[c])] # "token"

\* C33: when the login exchange of the refresh after a TokenExpired failure
\* fails, the call ends with that login failure (InvalidCredentials for 403
\* and 500, the failure itself otherwise) after exactly one execution, and,
\* no other operation having used the provider, the slot holds no token, so
\* that hasToken() is false for the next provide().
C33_FailedRefreshEndsTheCall ==
    \A c \in Calls :
        RefreshLoginFailed(c) =>
            /\ result[c] = Outcome(fetchTokenError(lresp[c][Len(lresp[c])]),
                                   NoAuthorization, Undefined, 0)
            /\ Len(sent[c]) = 1
            /\ Len(resp[c]) = 1
            /\ attempt[c] = 1
            /\ (\A p \in Procs \ {c} : pc[p] = "idle") =>
                   /\ provider.token = Undefined
                   /\ provider.expired = Undefined
                   /\ ~hasToken(provider, now)

C33_Witness ==
    \E c \in Calls :
        /\ RefreshLoginFailed(c)
        /\ resp[c] = <<ExpiredTokenResponse>>
        /\ lresp[c][Len(lresp[c])] = "500"
        /\ result[c].kind = "InvalidCredentials"
        /\ provider.token = Undefined
        /\ \A p \in Procs \ {c} : pc[p] = "idle"

\* the steps of withErrorHandler in their one order: the execution, then
\* reportExpired(), provide() and the re-execution
FullPath == <<"exec", "reportExpired", "provide", "exec">>

\* call c is on its way along the steps, none taken twice
OnPath(c) == Len(log[c]) <= 4 /\ log[c] = SubSeq(FullPath, 1, Len(log[c]))

Succeeded(c) == result[c].kind = "Success"

\* Requesting -> Success and Requesting -> Failed
EndedAfterRequest(c) ==
    /\ log[c] = <<"exec">>
    /\ result[c].att = 1
    /\ Len(resp[c]) = 1
    /\ Succeeded(c) = (resp[c][1] = OkResponse)

\* Requesting -> Refreshing -> Retrying -> Success and -> Failed-Final
EndedAfterRetry(c) ==
    /\ log[c] = FullPath
    /\ result[c].att = 2
    /\ Len(resp[c]) = 2
    /\ Succeeded(c) = (resp[c][2] = OkResponse)

\* Requesting -> Refreshing -> Failed: the login exchange of the refresh failed
EndedInRefresh(c) ==
    /\ log[c] = <<"exec", "reportExpired", "provide">>
    /\ result[c].att = 0
    /\ ~Succeeded(c)
    /\ Len(resp[c]) = 1

\* call c has been handed to the executor
Requested(c) == Len(log[c]) >= 1

EventuallyEnds ==
    \A c \in Calls : Requested(c) ~> (Finished(c) /\ result[c] # Pending)

\* C38 as stated: with every exchange answered, every call handed to the
\* executor ends, in Success or in a failure, along Requesting -> Success,
\* Requesting -> Failed or Requesting -> Refreshing -> Retrying ->
\* (Success | Failed-Final), and no step of the path is taken twice.
C38_EndsOnAListedPath ==
    /\ EventuallyEnds
    /\ [](\A c \in Calls :
              /\ OnPath(c)
              /\ (Requested(c) /\ Finished(c)) =>
                     EndedAfterRequest(c) \/ EndedAfterRetry(c))

\* C38 (amended): with every exchange answered, every call handed to the
\* executor ends, in Success or in a failure, along one of the three paths
\* above or along Requesting -> Refreshing -> Failed when the login exchange
\* of the refresh fails, and no step of the path is taken twice.
C38_EndsOnAPath ==
    /\ EventuallyEnds
    /\ [](\A c \in Calls :
              /\ OnPath(c)
              /\ (Requested(c) /\ Finished(c)) =>
                     EndedAfterRequest(c) \/ EndedAfterRetry(c) \/ EndedInRefresh(c))

C38_Witness ==
    \E c \in Calls :
        /\ Finished(c)
        /\ EndedAfterRetry(c)
        /\ resp[c] = <<ExpiredTokenResponse, NoGrantResponse>>
        /\ result[c].kind = "GrantRequired"

\* the provide() of operation p began while the slot held no token
BeganEmpty(p) == pv[p].began /\ pv[p].cached.token = Undefined

\* both operations began provide() on the empty slot, so that their login
\* exchanges overlap, and neither has reported an expiry
Overlapping == \A p \in Racers : BeganEmpty(p) /\ Reports(p) = 0

AnsweredWith(value) ==
    {i \in Keyed :
        ccalls[i].pc = "done" /\ ~ccalls[i].hit /\ ccalls[i].res = Returned(value)}

\* C34: no call is answered from the cache with undefined, and the call with
\* the same key that follows a call the wrapped client answered with
\* undefined reaches the wrapped client again; the call that follows a call
\* answered with null is served that null from the cache exactly until the
\* expiry configured for the category has elapsed.
C34_UndefinedIsNotServedNullIs ==
    /\ \A j \in Keyed : ccalls[j].hit => ccalls[j].res.value # undefined
    /\ \A i \in AnsweredWith(undefined) :
           SameKeyAfter(i) # {} =>
               LET j == Earliest(SameKeyAfter(i))
               IN  /\ ~ccalls[j].hit
                   /\ \E k \in 1..Len(wrapped) : k > 1 /\ wrapped[k] = ccalls[j].o
    /\ \A i \in AnsweredWith(null) :
           SameKeyAfter(i) # {} =>
               LET j == Earliest(SameKeyAfter(i))
                   expiry == caching.config[cachedCategory(ccalls[j].o.name)]
               IN  /\ ccalls[j].hit = (ccalls[j].at < ccalls[i].ended + expiry)
                   /\ ccalls[j].hit => ccalls[j].res = Returned(null)

\* two listBans calls answered with undefined both reached the wrapped client
C34_Witness ==
    /\ Len(ccalls) = 2
    /\ ccalls[1].o.name = "listBans"
    /\ ccalls[2].o = ccalls[1].o
    /\ ccalls[1].res = Returned(undefined)
    /\ ccalls[2].res = Returned(undefined)
    /\ Len(wrapped) = 2

\* what the key of a player-scoped read is to be determined by: the
\* category, the effective server API id and the identifier's string
KeyParts(o) ==
    <<cachedCategory(o.name),
      serverApiId(caching.defaultServerApiId, overrideOf(o)),
      playerIdOf(resolveArg(o)).id>>

PlayerReadCalls == {j \in Keyed : ccalls[j].o.name \in PlayerReads}

\* the calls before call j, of the same category, effective server API id
\* and identifier string, whose result the wrapped client returned
SamePartsBefore(j) ==
    {i \in 1..(j - 1) :
        /\ i \in PlayerReadCalls
        /\ KeyParts(ccalls[i].o) = KeyParts(ccalls[j].o)
        /\ ~ccalls[i].hit
        /\ ccalls[i].res.kind = "value"}

\* C35: two player-scoped reads are handed the same cache key exactly when
\* they agree in category, effective server API id (the override of the
\* request, else the client's default) and identifier string, whatever the
\* form of the argument; so the second of two such calls made within the
\* expiry is answered from the cache, and no call is answered from the
\* cache with the result of a call of another category or server.
C35_KeyIsCategoryServerAndPlayer ==
    /\ \A i, j \in PlayerReadCalls :
           (ccalls[i].cacheKey = ccalls[j].cacheKey)
               = (KeyParts(ccalls[i].o) = KeyParts(ccalls[j].o))
    /\ \A j \in PlayerReadCalls :
           /\ ccalls[j].hit =>
                  /\ SamePartsBefore(j) # {}
                  /\ ccalls[j].res = ccalls[Latest(SamePartsBefore(j))].res
           /\ (SamePartsBefore(j) # {}
                   /\ ccalls[Latest(SamePartsBefore(j))].res.value \notin {undefined}
                   /\ ccalls[j].at < ccalls[Latest(SamePartsBefore(j))].ended
                          + caching.config[cachedCategory(ccalls[j].o.name)]) =>
                  ccalls[j].hit

\* the calls of the cached reads that stored the wrapped client's result
Stored ==
    {i \in Keyed :
        /\ ccalls[i].o.name \notin Mutating
        /\ ccalls[i].pc = "done"
        /\ ~ccalls[i].hit
        /\ ccalls[i].res.kind = "value"}

\* a mutating operation was called, and has returned, between calls i and j
MutatedBetween(i, j) ==
    \E m \in MutatingCalls :
        /\ i < m /\ m < j
        /\ ccalls[m].pc = "done"
        /\ ccalls[m].o.playerId = ccalls[i].o.playerId

\* C36: the cache holds entries of cached reads only, and whatever mutating
\* operations were called since: the entry a read stored is as that read
\* left it until the next call with its key, and a read of the same key made
\* after a mutating operation for the same player and before the expiry is
\* answered from the cache with the value stored before the mutation.
C36_MutationsLeaveEntriesAlone ==
    /\ \A k \in DOMAIN entries : \E i \in Stored : ccalls[i].cacheKey = k
    /\ \A i \in Stored :
           LET expiry == caching.config[cachedCategory(ccalls[i].o.name)]
               kept == CacheEntry(ccalls[i].res.value, ccalls[i].ended + expiry)
           IN  /\ SameKeyAfter(i) = {} =>
                      /\ ccalls[i].cacheKey \in DOMAIN entries
                      /\ entries[ccalls[i].cacheKey] = kept
               /\ \A j \in SameKeyAfter(i) :
                      (/\ j = Earliest(SameKeyAfter(i))
                       /\ MutatedBetween(i, j)
                       /\ ccalls[i].res.value # undefined
                       /\ ccalls[j].at < ccalls[i].ended + expiry) =>
                          /\ ccalls[j].hit
                          /\ ccalls[j].res = ccalls[i].res
                          /\ entries[ccalls[i].cacheKey] = kept

\* getPriorityQueue, putPriorityQueue, and getPriorityQueue again: the second
\* read returns what the first stored
C36_Witness ==
    /\ Len(ccalls) = 3
    /\ ccalls[1].o.name = "getPriorityQueue"
    /\ ccalls[1].res = Returned(Fresh(1))
    /\ ccalls[2].o.name = "putPriorityQueue"
    /\ ccalls[2].res = Returned(undefined)
    /\ ccalls[3].o = ccalls[1].o
    /\ ccalls[3].hit
    /\ ccalls[3].res = Returned(Fresh(1))
    /\ Len(wrapped) = 2

(***************************************************************************)
(* Claims about the logging hooks                                          *)
(***************************************************************************)
\* the values a run keeps secret
SecretValues(s) == {s.secret, s.token, s.enterpriseToken, "Bearer " \o s.token}

\* the lines of run r that beforeRequest wrote
Doings(r) == {i \in 1..Len(console[r]) : console[r][i][1] = "Doing"}

====
